---- MODULE Spec2Model ----
(***************************************************************************)
(* Model of the return / Sharpe analysis pipeline of CongressTrades        *)
(* (src/src/analysis.py over the SQLite tables of src/src/db.py).          *)
(*                                                                         *)
(* Numbers.  The program computes with floats; the model computes with     *)
(* exact rationals <<n, d>> in lowest terms, d > 0.  A value that involves *)
(* a square root (a standard deviation, a Sharpe ratio) is held through    *)
(* the order-preserving bijection  x |-> x * |x|  of the reals, so that it *)
(* stays rational: a standard deviation is held as the variance, a Sharpe  *)
(* ratio as sign(m - rf) * (m - rf)^2 / variance.                          *)
(*                                                                         *)
(* Dates are day numbers.  The SQL NULL / Python None is the empty tuple   *)
(* NULL; a value of a nullable DATE column is the 1-tuple <<day>>, so that *)
(* every nullable number or date is a tuple and can be compared with NULL; *)
(* in a TEXT column NULL is the string NULL_TEXT.                          *)
(***************************************************************************)
EXTENDS Integers, Sequences, FiniteSets, TLC

VARIABLES
    today,             \* datetime.now(), as a day number
    provider,          \* the price provider's data: ticker -> (date -> close)
    trades,            \* table trades, in rowid order (id = position)
    price_cache,       \* table price_cache: ticker -> (date -> close_price)
    trade_returns,     \* table trade_returns, in rowid order
    sharpe_snapshots,  \* table sharpe_snapshots, in rowid order
    call               \* the last operation: its arguments, locals and results

vars == <<today, provider, trades, price_cache, trade_returns,
          sharpe_snapshots, call>>

NULL == <<>>
\* NULL in a TEXT column (a ticker): a string that is no ticker.
NULL_TEXT == "<NULL>"

----------------------------------------------------------------------------
(* Bounds of the model.                                                    *)

MaxTrades == 2      \* rows of the trade ledger
MaxPrice == 2       \* closing prices are 1..MaxPrice
MaxRows == 3        \* rows of a returns_df handed to the aggregator
MaxCalls == 2       \* direct calls of the return calculator in a row
MaxCacheCalls == 2  \* direct calls of cache_prices in a row
MaxLedger == 2      \* direct calls of insert_trade in a row
MaxFetchTickers == 101  \* tickers of a price request: three provider batches
MaxFetchCalls == 2  \* calls of get_prices_for_tickers in a row
MaxSaves == 3       \* direct calls of save_sharpe_snapshot in a row
MaxHistoryDay == 100  \* the daily runs of a history are on days 0..MaxHistoryDay

MinOf(S) == CHOOSE x \in S : \A y \in S : x <= y
MaxOf(S) == CHOOSE x \in S : \A y \in S : x >= y

Members == {1, 2}
Tickers == {"ABC"}
TxTypes == {"purchase", "sale"}
\* Days on which something happens: two days around the transaction and two
\* days around the 30-day horizon.
DaySet == {0, 1, 30, 31}
LastDay == MaxOf(DaySet)
\* The days of the program's clock: the days on which trades are disclosed,
\* closes are published and analyses run.
ClockDays == {0, 1, 31}
Prices == 1..MaxPrice
\* Transaction dates of the disclosed trades.
TxDays == {0, 1}

----------------------------------------------------------------------------
(* Exact arithmetic standing for the float arithmetic of the program.      *)

Abs(x) == IF x < 0 THEN -x ELSE x

RECURSIVE GCD(_, _)
GCD(a, b) == IF b = 0 THEN a ELSE GCD(b, a % b)

\* n / d in lowest terms with a positive denominator (d # 0).
Frac(n, d) ==
    LET g == GCD(Abs(n), Abs(d))
        s == IF d < 0 THEN -1 ELSE 1
    IN  <<(s * n) \div g, (s * d) \div g>>

RInt(n) == <<n, 1>>
RNeg(x) == <<-x[1], x[2]>>
RAdd(x, y) ==
    LET g == GCD(x[2], y[2])
    IN  Frac(x[1] * (y[2] \div g) + y[1] * (x[2] \div g), (x[2] \div g) * y[2])
RSub(x, y) == RAdd(x, RNeg(y))
RMul(x, y) ==
    LET a == Frac(x[1], y[2])
        b == Frac(y[1], x[2])
    IN  Frac(a[1] * b[1], a[2] * b[2])
RDiv(x, y) == RMul(x, IF y[1] < 0 THEN <<-y[2], -y[1]>> ELSE <<y[2], y[1]>>)
RGt(x, y) == x[1] * y[2] > y[1] * x[2]
\* x * |x|: the rational that stands for a value whose square is rational.
RSignedSq(x) == Frac(x[1] * Abs(x[1]), x[2] * x[2])

RECURSIVE RSum(_)
RSum(s) == IF s = <<>> THEN RInt(0) ELSE RAdd(Head(s), RSum(Tail(s)))

RECURSIVE RProd(_)
RProd(s) == IF s = <<>> THEN RInt(1) ELSE RMul(Head(s), RProd(Tail(s)))

----------------------------------------------------------------------------
(* Table trade_returns (db.py).  A row is a record; the table is the       *)
(* sequence of its rows in rowid order.                                    *)

\* COALESCE(a, b) of SQLite: the first argument that is not NULL.
COALESCE(a, b) == IF a # NULL THEN a ELSE b

\* Variants of the upsert with one clause of the statement changed.
\* return_30d = excluded.return_30d (no COALESCE).
upsert_overwrite_30d(table, a) ==
    IF \E i \in DOMAIN table : table[i].trade_id = a.trade_id
    THEN [i \in DOMAIN table |->
            IF table[i].trade_id = a.trade_id
            THEN [table[i] EXCEPT
                    !.return_30d = a.return_30d,
                    !.return_30d_date = COALESCE(a.return_30d_date, @),
                    !.return_current = a.return_current,
                    !.return_current_date = a.return_current_date]
            ELSE table[i]]
    ELSE Append(table, a)

\* return_30d_date = excluded.return_30d_date (no COALESCE).
upsert_overwrite_30d_date(table, a) ==
    IF \E i \in DOMAIN table : table[i].trade_id = a.trade_id
    THEN [i \in DOMAIN table |->
            IF table[i].trade_id = a.trade_id
            THEN [table[i] EXCEPT
                    !.return_30d = COALESCE(a.return_30d, @),
                    !.return_30d_date = a.return_30d_date,
                    !.return_current = a.return_current,
                    !.return_current_date = a.return_current_date]
            ELSE table[i]]
    ELSE Append(table, a)

\* return_current = COALESCE(excluded.return_current, return_current).
upsert_keep_current(table, a) ==
    IF \E i \in DOMAIN table : table[i].trade_id = a.trade_id
    THEN [i \in DOMAIN table |->
            IF table[i].trade_id = a.trade_id
            THEN [table[i] EXCEPT
                    !.return_30d = COALESCE(a.return_30d, @),
                    !.return_30d_date = COALESCE(a.return_30d_date, @),
                    !.return_current = COALESCE(a.return_current, @),
                    !.return_current_date = a.return_current_date]
            ELSE table[i]]
    ELSE Append(table, a)

\* INSERT without the ON CONFLICT clause and without the UNIQUE constraint.
upsert_always_insert(table, a) == Append(table, a)

\* INSERT ... ON CONFLICT(trade_id) DO UPDATE SET ...: the row that holds
\* the trade_id is updated in place, otherwise a row is added.
upsert_trade_return(table, a) ==
    IF \E i \in DOMAIN table : table[i].trade_id = a.trade_id
    THEN [i \in DOMAIN table |->
            IF table[i].trade_id = a.trade_id
            THEN [table[i] EXCEPT
                    !.return_30d = COALESCE(a.return_30d, @),
                    !.return_30d_date = COALESCE(a.return_30d_date, @),
                    !.return_current = a.return_current,
                    !.return_current_date = a.return_current_date]
            ELSE table[i]]
    ELSE Append(table, a)

\* SELECT * FROM trade_returns WHERE trade_id = ? ; fetchone().
get_trade_return(table, trade_id) ==
    IF \E i \in DOMAIN table : table[i].trade_id = trade_id
    THEN table[CHOOSE i \in DOMAIN table :
                 /\ table[i].trade_id = trade_id
                 /\ \A j \in DOMAIN table :
                        table[j].trade_id = trade_id => i <= j]
    ELSE NULL

----------------------------------------------------------------------------
(* Price series.  A series (a pandas Series indexed by date, in date       *)
(* order) is a function from its dates to the closing prices.              *)

EmptySeries == <<>>

\* INSERT OR REPLACE INTO price_cache for every (date, price) of prices.
cache_prices(cache, ticker, prices) ==
    [cache EXCEPT ![ticker] =
        [d \in DOMAIN @ \cup DOMAIN prices |->
            IF d \in DOMAIN prices THEN prices[d] ELSE @[d]]]

\* The cached series without its latest point.
get_cached_price_df_stale(cache, ticker) ==
    [d \in {x \in DOMAIN cache[ticker] :
                \E y \in DOMAIN cache[ticker] : y > x} |-> cache[ticker][d]]

\* SELECT price_date, close_price FROM price_cache WHERE ticker = ?
get_cached_price_df(cache, ticker) == cache[ticker]

\* yf.download(batch, start=start_date, end=today): what the provider holds
\* for the ticker from start_date on.
download(prov, ticker, start_date) ==
    [d \in {x \in DOMAIN prov[ticker] : x >= start_date} |-> prov[ticker][d]]

batch_size == 50

\* fetch_and_cache_prices: the tickers are requested in batches of
\* batch_size; failed is the set of batch numbers (0, 1, ...) whose request
\* raises.  The result is <<all_prices, price_cache>>; all_prices is the
\* set of tickers that got a series, each read from fetched(t).
BatchOf(tickers, t) ==
    ((CHOOSE k \in DOMAIN tickers : tickers[k] = t) - 1) \div batch_size

\* The batches for which yf.download is called: the try/except is inside the
\* loop, so every batch of the list is requested whatever batches raise.
batch_numbers(tickers) ==
    IF tickers = <<>> THEN {} ELSE 0..((Len(tickers) - 1) \div batch_size)
\* The try/except around the loop: the first batch that raises ends it.
requested_batches_abort(tickers, failed) ==
    {b \in batch_numbers(tickers) : \A f \in failed : b <= f}
requested_batches(tickers, failed) == batch_numbers(tickers)

\* The calls of yf.download of one fetch, as the batch numbers in the order
\* of the calls.
provider_requests(tickers, failed) ==
    LET rb == requested_batches(tickers, failed)
    IN  [i \in 1..Cardinality(rb) |->
            CHOOSE b \in rb : Cardinality({x \in rb : x < b}) = i - 1]

fetched_tickers(prov, tickers, start_date, failed) ==
    {t \in {tickers[k] : k \in DOMAIN tickers} :
        /\ BatchOf(tickers, t) \in requested_batches(tickers, failed)
        /\ BatchOf(tickers, t) \notin failed
        /\ DOMAIN download(prov, t, start_date) # {}}

\* db.cache_prices for every fetched ticker: each ticker is cached once, so
\* the calls touch disjoint rows and their order does not matter.
cache_all(cache, prov, ts, start_date) ==
    [t \in DOMAIN cache |->
        IF t \in ts
        THEN cache_prices(cache, t, download(prov, t, start_date))[t]
        ELSE cache[t]]

\* The fetch without the write-back of the fetched series.
fetch_and_cache_prices_unsaved(cache, prov, tickers, start_date, failed) ==
    LET got == fetched_tickers(prov, tickers, start_date, failed)
    IN  <<[t \in got |-> download(prov, t, start_date)], cache>>

fetch_and_cache_prices(cache, prov, tickers, start_date, failed) ==
    LET got == fetched_tickers(prov, tickers, start_date, failed)
    IN  <<[t \in got |-> download(prov, t, start_date)],
          cache_all(cache, prov, got, start_date)>>

CacheThreshold == 10

\* not cached.empty and len(cached) >= 10, an off-by-one of the threshold.
cache_satisfied_from_10(cached) ==
    /\ DOMAIN cached # {}
    /\ Cardinality(DOMAIN cached) >= CacheThreshold
\* not cached.empty and len(cached) > 10
cache_satisfied(cached) ==
    /\ DOMAIN cached # {}
    /\ Cardinality(DOMAIN cached) > CacheThreshold

\* The tickers of the request that are passed to the provider, in order.
needs_fetch(cache, tickers) ==
    LET ToFetch(t) == ~cache_satisfied(get_cached_price_df(cache, t))
    IN  SelectSeq(tickers, ToFetch)

\* get_prices_for_tickers: a ticker with more than CacheThreshold cached
\* points is read from the cache, the others are fetched.  The result is
\* <<prices, price_cache>>.
get_prices_for_tickers(cache, prov, tickers, start_date, failed) ==
    LET tickers_to_fetch == needs_fetch(cache, tickers)
        cachedT == {tickers[k] : k \in DOMAIN tickers} \ 
                       {tickers_to_fetch[k] : k \in DOMAIN tickers_to_fetch}
        f == IF tickers_to_fetch # <<>>
             THEN fetch_and_cache_prices(cache, prov, tickers_to_fetch,
                                         start_date, failed)
             ELSE <<EmptySeries, cache>>
    IN  <<[t \in cachedT \cup DOMAIN f[1] |->
              IF t \in DOMAIN f[1] THEN f[1][t]
              ELSE get_cached_price_df(cache, t)],
          f[2]>>

----------------------------------------------------------------------------
(* The trade ledger and the return calculator.                             *)

\* UNIQUE(member_id, transaction_date, ticker, asset_description,
\* transaction_type, amount_range, owner): SQLite holds NULLs to be distinct
\* from each other, so a row with a NULL ticker or a NULL owner conflicts
\* with no stored row.  The columns asset_description and amount_range are
\* held fixed (they are NOT NULL); a row without an owner field stands for
\* a fixed non-null owner.
unique_conflict(table, row) ==
    /\ row.ticker # NULL_TEXT
    /\ "owner" \in DOMAIN row => row.owner # NULL_TEXT
    /\ \E i \in DOMAIN table : table[i] = row

\* insert_trade: INSERT INTO trades; on a conflict with the UNIQUE
\* constraint (IntegrityError) nothing is added.
insert_trade(table, row) ==
    IF unique_conflict(table, row) THEN table ELSE Append(table, row)

\* What insert_trade returns: None on a conflict, else the id of the new
\* row (cursor.lastrowid).
insert_trade_returns(table, row) ==
    IF unique_conflict(table, row) THEN NULL ELSE <<Len(table) + 1>>

\* get_trades_for_analysis: the trades with a ticker and a type purchase or
\* sale, ORDER BY transaction_date (rowid order among equal dates), as the
\* sequence of their rows with the trade_id added.
Eligible(table) ==
    {i \in DOMAIN table :
        /\ table[i].ticker # NULL_TEXT
        /\ table[i].ticker # ""
        /\ table[i].transaction_type \in {"purchase", "sale"}}

RECURSIVE OrderByDate(_, _)
OrderByDate(table, ids) ==
    IF ids = {} THEN <<>>
    ELSE LET i == CHOOSE x \in ids : \A y \in ids :
                      \/ table[x].transaction_date < table[y].transaction_date
                      \/ /\ table[x].transaction_date = table[y].transaction_date
                         /\ x <= y
         IN  <<[trade_id |-> i,
                member_id |-> table[i].member_id,
                ticker |-> table[i].ticker,
                transaction_date |-> table[i].transaction_date,
                transaction_type |-> table[i].transaction_type]>>
             \o OrderByDate(table, ids \ {i})

get_trades_for_analysis(table) == OrderByDate(table, Eligible(table))

\* trades['ticker'].unique().tolist(): the tickers in order of first
\* appearance.
RECURSIVE unique_tickers(_)
unique_tickers(df) ==
    IF df = <<>> THEN <<>>
    ELSE LET rest == unique_tickers(SubSeq(df, 1, Len(df) - 1))
             t == df[Len(df)].ticker
         IN  IF \E k \in DOMAIN rest : rest[k] = t THEN rest
             ELSE Append(rest, t)

\* The 30-day window of the forward return (timedelta(days=30)).
Horizon == 30

\* valid_dates[0]: the first date of the series on or after the trade date
\* (NULL when there is none).
entry_point_strict(price_series, trade_date) ==
    LET valid_dates == {d \in DOMAIN price_series : d > trade_date}
    IN  IF valid_dates = {} THEN NULL ELSE <<MinOf(valid_dates)>>

entry_point(price_series, trade_date) ==
    LET valid_dates == {d \in DOMAIN price_series : d >= trade_date}
    IN  IF valid_dates = {} THEN NULL ELSE <<MinOf(valid_dates)>>

\* valid_30[0]: the first date of the series on or after entry + 30 days
\* (NULL when there is none).
forward_exit_last(price_series, entry_date) ==
    LET target_date_30 == entry_date + Horizon
        valid_30 == {d \in DOMAIN price_series : d >= target_date_30}
    IN  IF valid_30 = {} THEN NULL ELSE <<MaxOf(valid_30)>>

forward_exit(price_series, entry_date) ==
    LET target_date_30 == entry_date + Horizon
        valid_30 == {d \in DOMAIN price_series : d >= target_date_30}
    IN  IF valid_30 = {} THEN NULL ELSE <<MinOf(valid_30)>>

\* price_series.iloc[-1]: the price at the last date of the series.
current_price_first(price_series) == price_series[MinOf(DOMAIN price_series)]

current_price(price_series) == price_series[MaxOf(DOMAIN price_series)]

\* Flip sign for sales: a non-null return of a sale is negated.
flip_sign_never(tx_type, r) == r

flip_sign(tx_type, r) ==
    IF tx_type = "sale" /\ r # NULL THEN RNeg(r) ELSE r

\* The per-trade body of calculate_and_store_returns (analysis.py 144-201):
\* NULL when the trade is skipped, otherwise the arguments of the upsert.
trade_return(trade, prices, today_str) ==
    IF trade.ticker \notin DOMAIN prices \/ DOMAIN prices[trade.ticker] = {}
    THEN NULL
    ELSE
    LET price_series == prices[trade.ticker]
        entry == entry_point(price_series, trade.transaction_date)
    IN  IF entry = NULL THEN NULL
        ELSE
        LET entry_date == entry[1]
            entry_price == price_series[entry_date]
            exit_30 == forward_exit(price_series, entry_date)
            return_30d == IF exit_30 = NULL THEN NULL
                          ELSE Frac(price_series[exit_30[1]] - entry_price,
                                    entry_price)
            return_current ==
                IF Cardinality(DOMAIN price_series) > 0
                THEN Frac(current_price(price_series) - entry_price,
                          entry_price)
                ELSE NULL
        IN  [trade_id |-> trade.trade_id,
             entry_date |-> entry_date,
             entry_price |-> entry_price,
             return_30d |-> flip_sign(trade.transaction_type, return_30d),
             return_30d_date |-> exit_30,
             return_current |->
                 flip_sign(trade.transaction_type, return_current),
             return_current_date |-> <<today_str>>]

\* An exception inside the try block of one trade: a division by an entry
\* price of 0.0 (ZeroDivisionError of Python floats), or an upsert that
\* raises (failing is the set of trade ids whose upsert raises).
trade_raises(trade, prices, failing) ==
    /\ trade.ticker \in DOMAIN prices
    /\ DOMAIN prices[trade.ticker] # {}
    /\ entry_point(prices[trade.ticker], trade.transaction_date) # NULL
    /\ \/ prices[trade.ticker][entry_point(prices[trade.ticker],
                                           trade.transaction_date)[1]] = 0
       \/ trade.trade_id \in failing

\* except Exception: continue, inside the loop: the loop reaches its n-th
\* trade whatever happened to the trades before it.
reached_until_exception(trades_df, n, prices, failing) ==
    \A k \in 1..(n - 1) : ~trade_raises(trades_df[k], prices, failing)

reached(trades_df, n, prices, failing) == TRUE

\* calculate_and_store_returns: the loop over the trades in order.  The
\* result is <<results, trade_returns, upserts>>: the rows of the returned
\* frame, the table after the loop, and the upsert arguments in call order.
RECURSIVE returns_loop(_, _, _, _, _)
returns_loop(table, trades_df, prices, today_str, failing) ==
    IF trades_df = <<>> THEN <<<<>>, table, <<>>>>
    ELSE
    LET n == Len(trades_df)
        done == returns_loop(table, SubSeq(trades_df, 1, n - 1), prices,
                             today_str, failing)
        trade == trades_df[n]
        a == trade_return(trade, prices, today_str)
    IN  IF \/ ~reached(trades_df, n, prices, failing)
           \/ trade_raises(trade, prices, failing)
        THEN done
        ELSE IF a = NULL THEN done
        ELSE <<Append(done[1],
                      [trade_id |-> trade.trade_id,
                       member_id |-> trade.member_id,
                       ticker |-> trade.ticker,
                       transaction_type |-> trade.transaction_type,
                       return_30d |-> a.return_30d,
                       return_current |-> a.return_current]),
               upsert_trade_return(done[2], a),
               Append(done[3], a)>>

\* The call when no upsert raises.
calculate_and_store_returns(table, trades_df, prices, today_str) ==
    returns_loop(table, trades_df, prices, today_str, {})

----------------------------------------------------------------------------
(* The Sharpe aggregator and the snapshot table.                           *)

RISK_FREE_RATE_ANNUAL == Frac(45, 1000)
RISK_FREE_RATE_DAILY == RDiv(RISK_FREE_RATE_ANNUAL, RInt(252))

\* The conflict resolved as for the 30-day fields of trade_returns: a null
\* sharpe_30d keeps the stored one.
save_sharpe_snapshot_coalesce(table, row) ==
    IF \E i \in DOMAIN table :
          /\ table[i].member_id = row.member_id
          /\ table[i].snapshot_date = row.snapshot_date
    THEN [i \in DOMAIN table |->
            IF /\ table[i].member_id = row.member_id
               /\ table[i].snapshot_date = row.snapshot_date
            THEN [row EXCEPT
                    !.sharpe_30d = COALESCE(row.sharpe_30d, table[i].sharpe_30d)]
            ELSE table[i]]
    ELSE Append(table, row)

\* INSERT INTO sharpe_snapshots ... ON CONFLICT(member_id, snapshot_date)
\* DO UPDATE SET every statistic = excluded.
save_sharpe_snapshot(table, row) ==
    IF \E i \in DOMAIN table :
          /\ table[i].member_id = row.member_id
          /\ table[i].snapshot_date = row.snapshot_date
    THEN [i \in DOMAIN table |->
            IF /\ table[i].member_id = row.member_id
               /\ table[i].snapshot_date = row.snapshot_date
            THEN row ELSE table[i]]
    ELSE Append(table, row)

\* SELECT MAX(snapshot_date) FROM sharpe_snapshots (NULL on an empty table).
max_snapshot_date(table) ==
    IF table = <<>> THEN NULL
    ELSE <<MaxOf({table[i].snapshot_date : i \in DOMAIN table})>>

\* SQLite's order of a REAL column: NULL sorts below every value, so that
\* ORDER BY ... DESC places the NULLs last.
SqlLess(x, y) ==
    IF x = NULL THEN y # NULL
    ELSE IF y = NULL THEN FALSE
    ELSE RGt(y, x)

\* ORDER BY ss.sharpe_30d ASC, the ranking in the wrong direction.
RECURSIVE order_by_sharpe_30d_asc(_)
order_by_sharpe_30d_asc(rows) ==
    IF rows = <<>> THEN <<>>
    ELSE LET x == rows[Len(rows)]
             sorted == order_by_sharpe_30d_asc(SubSeq(rows, 1, Len(rows) - 1))
             Before(y) == ~SqlLess(x.sharpe_30d, y.sharpe_30d)
             After(y) == SqlLess(x.sharpe_30d, y.sharpe_30d)
         IN  SelectSeq(sorted, Before) \o <<x>> \o SelectSeq(sorted, After)

\* ORDER BY ss.sharpe_30d DESC: the rows in scan (rowid) order, sorted by
\* insertion, rows of equal rank kept in scan order.
RECURSIVE sort_by_sharpe_30d_desc(_)
sort_by_sharpe_30d_desc(rows) ==
    IF rows = <<>> THEN <<>>
    ELSE LET x == rows[Len(rows)]
             sorted == sort_by_sharpe_30d_desc(SubSeq(rows, 1, Len(rows) - 1))
             Before(y) == ~SqlLess(y.sharpe_30d, x.sharpe_30d)
             After(y) == SqlLess(y.sharpe_30d, x.sharpe_30d)
         IN  SelectSeq(sorted, Before) \o <<x>> \o SelectSeq(sorted, After)
order_by_sharpe_30d_desc(rows) == sort_by_sharpe_30d_desc(rows)

\* get_latest_sharpe_all_members: the snapshots of the latest snapshot date
\* joined with the members table, ordered by descending sharpe_30d.
get_latest_sharpe_all_members(table, members) ==
    LET latest == max_snapshot_date(table)
        Selected(r) == <<r.snapshot_date>> = latest /\ r.member_id \in members
    IN  order_by_sharpe_30d_desc(SelectSeq(table, Selected))

\* ORDER BY snapshot_date DESC: a row is preceded by the rows of a later date
\* and, in scan order, by those of its own date.
order_by_snapshot_date_desc(rows) ==
    LET before == [i \in DOMAIN rows |->
                     Cardinality({j \in DOMAIN rows :
                         \/ rows[j].snapshot_date > rows[i].snapshot_date
                         \/ /\ rows[j].snapshot_date = rows[i].snapshot_date
                            /\ j < i})]
    IN  [k \in 1..Len(rows) |->
            rows[CHOOSE i \in DOMAIN rows : before[i] = k - 1]]

\* LIMIT ?: the first rows of a result.
sql_limit(rows, limit) == SubSeq(rows, 1, IF Len(rows) < limit THEN Len(rows) ELSE limit)

\* The query without its ORDER BY: the first rows in scan order.
get_sharpe_history_unordered(table, member_id, limit) ==
    LET IsMember(r) == r.member_id = member_id
    IN  sql_limit(SelectSeq(table, IsMember), limit)

\* get_sharpe_history: SELECT * FROM sharpe_snapshots WHERE member_id = ?
\* ORDER BY snapshot_date DESC LIMIT ?.
get_sharpe_history(table, member_id, limit) ==
    LET IsMember(r) == r.member_id = member_id
    IN  sql_limit(order_by_snapshot_date_desc(SelectSeq(table, IsMember)), limit)

\* The default of the limit parameter, which get_member_sharpe_history
\* leaves in place (a member is named by its id here).
history_limit == 100
get_member_sharpe_history(table, member_id) ==
    get_sharpe_history(table, member_id, history_limit)

\* returns_df['member_id'].unique(): the members in order of first
\* appearance.
RECURSIVE unique_members(_)
unique_members(df) ==
    IF df = <<>> THEN <<>>
    ELSE LET rest == unique_members(SubSeq(df, 1, Len(df) - 1))
             m == df[Len(df)].member_id
         IN  IF \E k \in DOMAIN rest : rest[k] = m THEN rest
             ELSE Append(rest, m)

\* member_data[column].dropna(): the non-null values of a column.
RECURSIVE dropna(_, _)
dropna(df, column) ==
    IF df = <<>> THEN <<>>
    ELSE LET rest == dropna(SubSeq(df, 1, Len(df) - 1), column)
             v == df[Len(df)][column]
         IN  IF v = NULL THEN rest ELSE Append(rest, v)

\* Series.mean(), Series.std() (N - 1 denominator; held as the variance),
\* (valid > 0).mean() and (1 + valid).prod() - 1.
mean(valid) == RDiv(RSum(valid), RInt(Len(valid)))
\* The population variance (N denominator) in place of the sample variance.
std_population(valid) ==
    LET m == mean(valid)
    IN  RDiv(RSum([k \in DOMAIN valid |->
                     RMul(RSub(valid[k], m), RSub(valid[k], m))]),
             RInt(Len(valid)))
std(valid) ==
    LET m == mean(valid)
    IN  RDiv(RSum([k \in DOMAIN valid |->
                     RMul(RSub(valid[k], m), RSub(valid[k], m))]),
             RInt(Len(valid) - 1))
\* A return of exactly 0 counted as a win.
win_rate_nonneg(valid) ==
    Frac(Cardinality({k \in DOMAIN valid : ~RGt(RInt(0), valid[k])}), Len(valid))
win_rate(valid) ==
    Frac(Cardinality({k \in DOMAIN valid : RGt(valid[k], RInt(0))}), Len(valid))
\* The sum of the returns in place of the compounded product.
total_return_sum(valid) == RSum(valid)
total_return(valid) ==
    RSub(RProd([k \in DOMAIN valid |-> RAdd(RInt(1), valid[k])]), RInt(1))

\* The statistics of one horizon (analysis.py 238-251 and 254-267).
NullStats ==
    [sharpe |-> NULL, mean |-> NULL, std |-> NULL, win_rate |-> NULL,
     total_return |-> NULL]

\* The same with three observations required.
horizon_stats_min3(valid, rf) ==
    IF Len(valid) >= 3
    THEN [sharpe |-> IF RGt(std(valid), RInt(0))
                     THEN RDiv(RSignedSq(RSub(mean(valid), rf)), std(valid))
                     ELSE NULL,
          mean |-> mean(valid),
          std |-> std(valid),
          win_rate |-> win_rate(valid),
          total_return |-> total_return(valid)]
    ELSE NullStats

horizon_stats(valid, rf) ==
    IF Len(valid) >= 2
    THEN [sharpe |-> IF RGt(std(valid), RInt(0))
                     THEN RDiv(RSignedSq(RSub(mean(valid), rf)), std(valid))
                     ELSE NULL,
          mean |-> mean(valid),
          std |-> std(valid),
          win_rate |-> win_rate(valid),
          total_return |-> total_return(valid)]
    ELSE NullStats

\* num_trades = len(member_data): every row of the member, whether or not
\* its return_30d is null.
num_trades_valid_30d(member_data) == Len(dropna(member_data, "return_30d"))
num_trades(member_data) == Len(member_data)

member_snapshot(returns_df, member_id, snapshot_date) ==
    LET IsMember(r) == r.member_id = member_id
        member_data == SelectSeq(returns_df, IsMember)
        rf_30d == RMul(RISK_FREE_RATE_DAILY, RInt(30))
        rf_annual == RISK_FREE_RATE_ANNUAL
        s30 == horizon_stats(dropna(member_data, "return_30d"), rf_30d)
        cur == horizon_stats(dropna(member_data, "return_current"), rf_annual)
    IN  [member_id |-> member_id,
         snapshot_date |-> snapshot_date,
         sharpe_30d |-> s30.sharpe,
         sharpe_current |-> cur.sharpe,
         num_trades |-> num_trades(member_data),
         mean_return_30d |-> s30.mean,
         std_return_30d |-> s30.std,
         mean_return_current |-> cur.mean,
         std_return_current |-> cur.std,
         win_rate_30d |-> s30.win_rate,
         win_rate_current |-> cur.win_rate,
         total_return_30d |-> s30.total_return,
         total_return_current |-> cur.total_return]

\* calculate_and_store_sharpe: one snapshot per member of returns_df, saved
\* in order of first appearance.  The result is the table after the loop.
RECURSIVE save_members(_, _, _, _)
save_members(table, returns_df, members, snapshot_date) ==
    IF members = <<>> THEN table
    ELSE save_members(
             save_sharpe_snapshot(
                 table, member_snapshot(returns_df, Head(members), snapshot_date)),
             returns_df, Tail(members), snapshot_date)

\* The same on an emptied snapshot table.
calculate_and_store_sharpe_fresh(table, returns_df, snapshot_date) ==
    save_members(<<>>, returns_df, unique_members(returns_df), snapshot_date)

calculate_and_store_sharpe(table, returns_df, snapshot_date) ==
    save_members(table, returns_df, unique_members(returns_df), snapshot_date)

\* The stored return records joined with their trades: one row per trade
\* that has a record, in trade order.
stored_frame(table, ledger) ==
    LET HasRecord(r) == r.stored
    IN  SelectSeq(
            [i \in 1..Len(ledger) |->
                LET rec == get_trade_return(table, i)
                IN  [trade_id |-> i,
                     member_id |-> ledger[i].member_id,
                     ticker |-> ledger[i].ticker,
                     transaction_type |-> ledger[i].transaction_type,
                     stored |-> rec # NULL,
                     return_30d |-> IF rec = NULL THEN NULL
                                    ELSE rec.return_30d,
                     return_current |-> IF rec = NULL THEN NULL
                                        ELSE rec.return_current]],
            HasRecord)

\* The aggregator reading the stored records instead.
aggregator_input_stored(results, table, ledger) == stored_frame(table, ledger)

\* run_analysis hands the frame returned by calculate_and_store_returns,
\* the results of this run, to calculate_and_store_sharpe
\* (analysis.py 367-376).
aggregator_input(results, table, ledger) == results

\* pd.DataFrame(results) of an empty results list has no columns, so that
\* returns_df['member_id'] (analysis.py 230) raises KeyError.
sharpe_raises(results) == results = <<>>

\* The run summary that run_analysis returns (analysis.py 413-419);
\* members_analyzed is the number of rows of sharpe_30d, one per member.
run_summary(results, snapshot_date) ==
    [trades_analyzed |-> Len(results),
     members_analyzed |-> Len(unique_members(results)),
     snapshot_date |-> snapshot_date]

----------------------------------------------------------------------------
(* Direct calls of db.upsert_trade_return with arbitrary arguments.        *)

ApiTradeIds == {1}
ApiReturns == {NULL, Frac(1, 2), Frac(-1, 2)}
ApiDates == {NULL, <<30>>, <<31>>}

UpsertArgs ==
    [trade_id : ApiTradeIds, entry_date : {0, 1}, entry_price : {1},
     return_30d : ApiReturns, return_30d_date : ApiDates,
     return_current : ApiReturns, return_current_date : ApiDates]

NoCall == [op |-> "none"]

InitDb ==
    /\ today = 0
    /\ provider = [t \in Tickers |-> <<>>]
    /\ trades = <<>>
    /\ price_cache = [t \in Tickers |-> <<>>]
    /\ trade_returns = <<>>
    /\ sharpe_snapshots = <<>>
    /\ call = NoCall

UpsertCall(a) ==
    /\ trade_returns' = upsert_trade_return(trade_returns, a)
    /\ call' = [op |-> "upsert_trade_return", args |-> a,
                before |-> get_trade_return(trade_returns, a.trade_id)]
    /\ UNCHANGED <<today, provider, trades, price_cache, sharpe_snapshots>>

NextUpsert == \E a \in UpsertArgs : UpsertCall(a)

SpecUpsert == InitDb /\ [][NextUpsert]_vars

\* The row stored for a trade after the call, and whether the call hit a
\* trade that already had a record.
Stored(trade_id) == get_trade_return(trade_returns, trade_id)
UpsertOnExisting ==
    /\ call.op = "upsert_trade_return"
    /\ call.before # NULL

\* C1: once the stored return_30d (return_30d_date) is non-null, an upsert
\* that supplies null for it, or the same non-null value, leaves the stored
\* value unchanged.
C1_Keep30dOnNullOrSame ==
    UpsertOnExisting =>
        LET old == call.before
            new == Stored(call.args.trade_id)
        IN  /\ ( /\ old.return_30d # NULL
                 /\ call.args.return_30d \in {NULL, old.return_30d} )
               => new.return_30d = old.return_30d
            /\ ( /\ old.return_30d_date # NULL
                 /\ call.args.return_30d_date \in {NULL, old.return_30d_date} )
               => new.return_30d_date = old.return_30d_date

C1_Witness ==
    /\ UpsertOnExisting
    /\ call.before.return_30d # NULL
    /\ call.before.return_30d_date # NULL
    /\ call.args.return_30d = NULL
    /\ call.args.return_30d_date = NULL
    /\ Stored(call.args.trade_id).return_30d = call.before.return_30d

\* C2 as stated: once return_30d and return_30d_date are non-null, no later
\* upsert changes them, whatever 30-day values it supplies.
C2_Original ==
    ( /\ UpsertOnExisting
      /\ call.before.return_30d # NULL
      /\ call.before.return_30d_date # NULL )
    => /\ Stored(call.args.trade_id).return_30d = call.before.return_30d
       /\ Stored(call.args.trade_id).return_30d_date
              = call.before.return_30d_date

\* C2 amended: once a 30-day field is non-null it never becomes null again,
\* and an upsert changes it only to the non-null value that the call
\* supplies for it.
C2_Never30dNullAgain ==
    UpsertOnExisting =>
        LET old == call.before
            new == Stored(call.args.trade_id)
        IN  /\ old.return_30d # NULL =>
                /\ new.return_30d # NULL
                /\ new.return_30d # old.return_30d
                      => new.return_30d = call.args.return_30d
            /\ old.return_30d_date # NULL =>
                /\ new.return_30d_date # NULL
                /\ new.return_30d_date # old.return_30d_date
                      => new.return_30d_date = call.args.return_30d_date

C2_Witness ==
    /\ UpsertOnExisting
    /\ call.before.return_30d # NULL
    /\ call.before.return_30d_date # NULL
    /\ call.args.return_30d \notin {NULL, call.before.return_30d}
    /\ call.args.return_30d_date \notin {NULL, call.before.return_30d_date}
    /\ Stored(call.args.trade_id).return_30d = call.args.return_30d
    /\ Stored(call.args.trade_id).return_30d_date = call.args.return_30d_date

\* C3: after an upsert on a trade that already has a record, the stored
\* return_current and return_current_date are exactly the values supplied.
C3_CurrentOverwritten ==
    UpsertOnExisting =>
        /\ Stored(call.args.trade_id).return_current = call.args.return_current
        /\ Stored(call.args.trade_id).return_current_date
               = call.args.return_current_date

C3_Witness ==
    /\ UpsertOnExisting
    /\ call.before.return_current # NULL
    /\ call.before.return_current_date # NULL
    /\ call.args.return_current = NULL
    /\ call.args.return_current_date \notin {NULL, call.before.return_current_date}
    /\ Stored(call.args.trade_id).return_current = NULL
    /\ Stored(call.args.trade_id).return_current_date
           = call.args.return_current_date

----------------------------------------------------------------------------
(* The program: ingestion of trades, the provider publishing closes, the   *)
(* clock, and analysis runs.                                               *)

Init == InitDb

NextDay(d) == MinOf({x \in ClockDays : x > d})

\* The clock moves to the next day of ClockDays.
Tick ==
    /\ \E x \in ClockDays : x > today
    /\ today' = NextDay(today)
    /\ call' = NoCall
    /\ UNCHANGED <<provider, trades, price_cache, trade_returns,
                   sharpe_snapshots>>

\* The provider gets the close of today for a ticker (at most one per day).
Publish(t, p) ==
    /\ today \notin DOMAIN provider[t]
    /\ provider' = [provider EXCEPT ![t] =
                       [d \in DOMAIN @ \cup {today} |->
                           IF d = today THEN p ELSE @[d]]]
    /\ call' = NoCall
    /\ UNCHANGED <<today, trades, price_cache, trade_returns, sharpe_snapshots>>

\* Ingestion stores a disclosed trade (scraper -> db.insert_trade).
InsertTrade(row) ==
    /\ Len(trades) < MaxTrades
    /\ row.transaction_date <= today
    /\ trades' = insert_trade(trades, row)
    /\ call' = NoCall
    /\ UNCHANGED <<today, provider, price_cache, trade_returns,
                   sharpe_snapshots>>

TradeRows ==
    [member_id : Members, transaction_date : TxDays, ticker : Tickers,
     transaction_type : TxTypes]

BatchNumbers == 0..((Cardinality(Tickers) - 1) \div batch_size)

\* run_analysis (analysis.py 326-419); failed is the set of provider
\* batches whose request raises in this run.
RunAnalysis(failed) ==
    LET trades_df == get_trades_for_analysis(trades)
        tickers == unique_tickers(trades_df)
        min_date == MinOf({trades_df[k].transaction_date :
                              k \in DOMAIN trades_df}) - 5
        got == get_prices_for_tickers(price_cache, provider, tickers,
                                      min_date, failed)
        ret == calculate_and_store_returns(trade_returns, trades_df, got[1],
                                           today)
        snapshot_date == today
    IN  IF trades_df = <<>>
        THEN /\ call' = [op |-> "run_analysis", error |-> "No trades"]
             /\ UNCHANGED <<today, provider, trades, price_cache,
                            trade_returns, sharpe_snapshots>>
        ELSE /\ price_cache' = got[2]
             /\ trade_returns' = ret[2]
             /\ sharpe_snapshots' =
                    IF sharpe_raises(ret[1]) THEN sharpe_snapshots
                    ELSE calculate_and_store_sharpe(
                             sharpe_snapshots,
                             aggregator_input(ret[1], ret[2], trades),
                             snapshot_date)
             /\ call' = [op |-> "run_analysis",
                         trades_df |-> trades_df,
                         prices |-> got[1],
                         before |-> trade_returns,
                         upserts |-> ret[3],
                         returns_df |-> ret[1],
                         snapshot_date |-> snapshot_date,
                         result |-> IF sharpe_raises(ret[1])
                                    THEN [raised |-> "KeyError"]
                                    ELSE run_summary(ret[1], snapshot_date)]
             /\ UNCHANGED <<today, provider, trades>>

Next ==
    \/ Tick
    \/ \E t \in Tickers, p \in Prices : Publish(t, p)
    \/ \E row \in TradeRows : InsertTrade(row)
    \/ \E failed \in SUBSET BatchNumbers : RunAnalysis(failed)

Spec == Init /\ [][Next]_vars

----------------------------------------------------------------------------
(* Direct calls of calculate_and_store_returns on a fixed ledger, each     *)
(* with an arbitrary prices dict: any subset of the tickers, each with any *)
(* series over DaySet (the empty series included).                         *)

AllSeries == UNION {[S -> Prices] : S \in SUBSET DaySet}
PriceDicts == UNION {[T -> AllSeries] : T \in SUBSET Tickers}

\* The ledgers of one member: 1..MaxTrades distinct trades.
ReturnRows == {r \in TradeRows : r.member_id = 1}
Ledgers ==
    {l \in UNION {[1..n -> ReturnRows] : n \in 1..MaxTrades} :
        \A i, j \in DOMAIN l : i # j => l[i] # l[j]}

CallsMade == IF call.op = "calculate_and_store_returns" THEN call.n ELSE 0

InitReturns ==
    /\ today = LastDay
    /\ provider = [t \in Tickers |-> <<>>]
    /\ trades \in Ledgers
    /\ price_cache = [t \in Tickers |-> <<>>]
    /\ trade_returns = <<>>
    /\ sharpe_snapshots = <<>>
    /\ call = NoCall

ReturnsCall(prices) ==
    LET trades_df == get_trades_for_analysis(trades)
        ret == calculate_and_store_returns(trade_returns, trades_df, prices,
                                           today)
    IN  /\ CallsMade < MaxCalls
        /\ trade_returns' = ret[2]
        /\ call' = [op |-> "calculate_and_store_returns",
                    n |-> CallsMade + 1,
                    trades_df |-> trades_df,
                    prices |-> prices,
                    before |-> trade_returns,
                    upserts |-> ret[3],
                    returns_df |-> ret[1]]
        /\ UNCHANGED <<today, provider, trades, price_cache, sharpe_snapshots>>

NextReturns == \E prices \in PriceDicts : ReturnsCall(prices)

SpecReturns == InitReturns /\ [][NextReturns]_vars

\* What the claims about one call of the return calculator talk about.
ReturnsRan == call.op \in {"calculate_and_store_returns", "run_analysis"}
                  /\ "upserts" \in DOMAIN call
\* The upsert arguments the call produced for a trade (NULL: none).
UpsertOf(trade_id) ==
    IF \E k \in DOMAIN call.upserts : call.upserts[k].trade_id = trade_id
    THEN call.upserts[CHOOSE k \in DOMAIN call.upserts :
                          call.upserts[k].trade_id = trade_id]
    ELSE NULL
\* The dates of the trade's series on or after day d, in the prices the
\* call was given (empty when the ticker has no series).
DatesFrom(trade, d) ==
    IF trade.ticker \in DOMAIN call.prices
    THEN {x \in DOMAIN call.prices[trade.ticker] : x >= d}
    ELSE {}
IsFirst(d, S) == d \in S /\ \A x \in S : d <= x
PriceAt(trade, d) == call.prices[trade.ticker][d]
\* sign * (b - a) / a = r, without computing the quotient.
IsReturn(r, sign, a, b) == r # NULL /\ r[1] * a = sign * (b - a) * r[2]
SignOf(trade) == IF trade.transaction_type = "sale" THEN -1 ELSE 1

\* C5: a trade gets a record written in the run if and only if its ticker's
\* series has a point on or after the transaction date, the entry date and
\* price being the first such point; for a trade without such a point
\* nothing is written and a record of a prior run is unchanged in every field.
C5_WrittenIffEntryPoint ==
    ReturnsRan =>
        \A k \in DOMAIN call.trades_df :
            LET trade == call.trades_df[k]
                a == UpsertOf(trade.trade_id)
                from == DatesFrom(trade, trade.transaction_date)
                old == get_trade_return(call.before, trade.trade_id)
                new == Stored(trade.trade_id)
            IN  /\ (a # NULL) <=> (from # {})
                /\ a # NULL =>
                      /\ IsFirst(a.entry_date, from)
                      /\ a.entry_price = PriceAt(trade, a.entry_date)
                      /\ new # NULL
                      /\ old = NULL =>
                            /\ new.entry_date = a.entry_date
                            /\ new.entry_price = a.entry_price
                /\ a = NULL => new = old

\* A second call skips a trade whose series has points, none of them on or
\* after the transaction date, and the record of the first call is kept.
C5_Witness ==
    /\ call.op = "calculate_and_store_returns"
    /\ \E k \in DOMAIN call.trades_df :
          LET trade == call.trades_df[k]
          IN  /\ UpsertOf(trade.trade_id) = NULL
              /\ DatesFrom(trade, 0) # {}
              /\ get_trade_return(call.before, trade.trade_id) # NULL
              /\ Stored(trade.trade_id)
                     = get_trade_return(call.before, trade.trade_id)
    /\ \E k \in DOMAIN call.trades_df :
          UpsertOf(call.trades_df[k].trade_id) # NULL

\* C6: the computed 30-day return of a trade with an entry point uses the
\* price at the first series date >= entry date + 30 days, as
\* (exit - entry) / entry (negated for a sale); with no such date
\* return_30d and return_30d_date are null.
C6_Return30dFromEntryPlus30 ==
    ReturnsRan =>
        \A k \in DOMAIN call.trades_df :
            LET trade == call.trades_df[k]
                a == UpsertOf(trade.trade_id)
                exits == DatesFrom(trade, a.entry_date + 30)
            IN  a # NULL =>
                  IF exits = {}
                  THEN a.return_30d = NULL /\ a.return_30d_date = NULL
                  ELSE /\ a.return_30d_date # NULL
                       /\ IsFirst(a.return_30d_date[1], exits)
                       /\ IsReturn(a.return_30d, SignOf(trade),
                                   PriceAt(trade, a.entry_date),
                                   PriceAt(trade, a.return_30d_date[1]))

\* The entry date is later than the transaction date and the series has a
\* date that is 30 days after the transaction but not after the entry.
C6_Witness ==
    /\ call.op = "calculate_and_store_returns"
    /\ \E k \in DOMAIN call.trades_df :
          LET trade == call.trades_df[k]
              a == UpsertOf(trade.trade_id)
          IN  /\ a # NULL
              /\ a.entry_date > trade.transaction_date
              /\ a.return_30d \notin {NULL, RInt(0)}
              /\ \E d \in DatesFrom(trade, trade.transaction_date + 30) :
                    /\ d < a.return_30d_date[1]
                    /\ PriceAt(trade, d) # PriceAt(trade, a.return_30d_date[1])

\* C7: for every trade whose record is written, return_current is non-null
\* and is (last price of the series - entry price) / entry price (negated
\* for a sale); it is the value stored.
C7_ReturnCurrentFromLastPrice ==
    ReturnsRan =>
        \A k \in DOMAIN call.trades_df :
            LET trade == call.trades_df[k]
                a == UpsertOf(trade.trade_id)
                last == MaxOf(DatesFrom(trade, 0))
            IN  a # NULL =>
                  /\ IsReturn(a.return_current, SignOf(trade),
                              PriceAt(trade, a.entry_date),
                              PriceAt(trade, last))
                  /\ Stored(trade.trade_id).return_current = a.return_current

\* The last price differs from the entry price and from the 30-day exit
\* price.
C7_Witness ==
    /\ call.op = "calculate_and_store_returns"
    /\ \E k \in DOMAIN call.trades_df :
          LET trade == call.trades_df[k]
              a == UpsertOf(trade.trade_id)
          IN  /\ a # NULL
              /\ a.return_current # RInt(0)
              /\ a.return_30d \notin {NULL, a.return_current}
              /\ Stored(trade.trade_id).return_current = a.return_current

\* A purchase and a sale of the ledger on the same ticker and date.
MirrorPairs ==
    {pq \in (DOMAIN trades) \X (DOMAIN trades) :
        /\ trades[pq[1]].transaction_type = "purchase"
        /\ trades[pq[2]].transaction_type = "sale"
        /\ trades[pq[1]].ticker = trades[pq[2]].ticker
        /\ trades[pq[1]].transaction_date = trades[pq[2]].transaction_date}
IsNegation(x, y) ==
    IF x = NULL THEN y = NULL
    ELSE y # NULL /\ y[1] = -x[1] /\ y[2] = x[2]

\* C8: for a purchase and a sale on the same ticker with the same
\* transaction date, analysed over the same price series, the sale's stored
\* return_30d and return_current are the negation of the purchase's, and a
\* null return_30d is null for both.
C8_SaleIsNegatedPurchase ==
    \A pq \in MirrorPairs :
        LET p == Stored(pq[1])
            q == Stored(pq[2])
        IN  /\ (p = NULL) <=> (q = NULL)
            /\ p # NULL =>
                  /\ IsNegation(p.return_30d, q.return_30d)
                  /\ IsNegation(p.return_current, q.return_current)
                  /\ p.return_30d_date = q.return_30d_date

C8_Witness ==
    \E pq \in MirrorPairs :
        /\ Stored(pq[1]) # NULL
        /\ Stored(pq[2]) # NULL
        /\ Stored(pq[1]).return_30d \notin {NULL, RInt(0)}
        /\ Stored(pq[1]).return_current \notin {NULL, RInt(0)}
        /\ Stored(pq[2]).return_30d = RNeg(Stored(pq[1]).return_30d)

----------------------------------------------------------------------------
(* One call of calculate_and_store_sharpe on the empty snapshot store with *)
(* an arbitrary returns_df of at most MaxRows rows.                        *)

SharpeReturns30d == {NULL, Frac(-1, 2), Frac(1, 2)}
\* return_current of a row of returns_df is never null (analysis.py 179-181).
SharpeReturnsCurrent == {RInt(0), RInt(1)}
SharpeRows ==
    [member_id : Members, return_30d : SharpeReturns30d,
     return_current : SharpeReturnsCurrent]
ReturnFrames == UNION {[1..n -> SharpeRows] : n \in 0..MaxRows}

SharpeCall(returns_df) ==
    /\ call.op = "none"
    /\ sharpe_snapshots' =
           calculate_and_store_sharpe(sharpe_snapshots, returns_df, today)
    /\ call' = [op |-> "calculate_and_store_sharpe",
                returns_df |-> returns_df,
                snapshot_date |-> today]
    /\ UNCHANGED <<today, provider, trades, price_cache, trade_returns>>

NextSharpe == \E returns_df \in ReturnFrames : SharpeCall(returns_df)

SpecSharpe == InitDb /\ [][NextSharpe]_vars

\* What the claims about one call of the aggregator talk about.
SharpeRan == "returns_df" \in DOMAIN call /\ "snapshot_date" \in DOMAIN call
\* The rows of returns_df of a member with a non-null value in a column.
ValidRows(m, column) ==
    {k \in DOMAIN call.returns_df :
        /\ call.returns_df[k].member_id = m
        /\ call.returns_df[k][column] # NULL}
MembersOfFrame == {call.returns_df[k].member_id : k \in DOMAIN call.returns_df}
\* The snapshot row stored for the member at the call's snapshot date.
Snapshot(m) ==
    sharpe_snapshots[CHOOSE i \in DOMAIN sharpe_snapshots :
        /\ sharpe_snapshots[i].member_id = m
        /\ sharpe_snapshots[i].snapshot_date = call.snapshot_date]
HorizonColumn == [h30 |-> "return_30d", cur |-> "return_current"]
StatsOf(row, h) ==
    IF h = "h30"
    THEN [sharpe |-> row.sharpe_30d, mean |-> row.mean_return_30d,
          std |-> row.std_return_30d, win_rate |-> row.win_rate_30d,
          total_return |-> row.total_return_30d]
    ELSE [sharpe |-> row.sharpe_current, mean |-> row.mean_return_current,
          std |-> row.std_return_current, win_rate |-> row.win_rate_current,
          total_return |-> row.total_return_current]
\* The returns differ: the sample standard deviation is strictly positive.
Varies(m, column) ==
    \E i, j \in ValidRows(m, column) :
        call.returns_df[i][column] # call.returns_df[j][column]

\* C9: per member and horizon, with fewer than 2 non-null returns Sharpe,
\* mean, std, win rate and total return are all null; with at least 2 they
\* are set, except that Sharpe is non-null if and only if the sample
\* standard deviation is strictly positive.
C9_SharpeNullGuard ==
    SharpeRan =>
        \A m \in MembersOfFrame : \A h \in {"h30", "cur"} :
            LET st == StatsOf(Snapshot(m), h)
                n == Cardinality(ValidRows(m, HorizonColumn[h]))
            IN  IF n < 2
                THEN /\ st.sharpe = NULL /\ st.mean = NULL /\ st.std = NULL
                     /\ st.win_rate = NULL /\ st.total_return = NULL
                ELSE /\ st.mean # NULL /\ st.std # NULL
                     /\ st.win_rate # NULL /\ st.total_return # NULL
                     /\ (st.sharpe # NULL) <=> Varies(m, HorizonColumn[h])
                     /\ (st.sharpe # NULL) <=> RGt(st.std, RInt(0))

\* One member has two equal 30-day returns (no Sharpe, the other statistics
\* set); another has a single row (nothing set for either horizon).
C9_Witness ==
    /\ SharpeRan
    /\ \E m \in MembersOfFrame :
          /\ Cardinality(ValidRows(m, "return_30d")) >= 2
          /\ ~Varies(m, "return_30d")
          /\ Snapshot(m).sharpe_30d = NULL
          /\ Snapshot(m).mean_return_30d # NULL
          /\ Snapshot(m).std_return_30d = RInt(0)
    /\ \E m \in MembersOfFrame :
          /\ Cardinality(ValidRows(m, "return_30d")) = 1
          /\ Cardinality(ValidRows(m, "return_current")) = 1
          /\ Snapshot(m).mean_return_30d = NULL
          /\ Snapshot(m).mean_return_current = NULL

\* Sums over the valid rows of a member: of the returns, and of the squared
\* distances of the returns to c.
RECURSIVE SumOfReturns(_, _)
SumOfReturns(rows, column) ==
    IF rows = {} THEN RInt(0)
    ELSE LET k == CHOOSE x \in rows : TRUE
         IN  RAdd(call.returns_df[k][column],
                  SumOfReturns(rows \ {k}, column))
RECURSIVE SumOfSquares(_, _, _)
SumOfSquares(rows, column, c) ==
    IF rows = {} THEN RInt(0)
    ELSE LET k == CHOOSE x \in rows : TRUE
             dist == RSub(call.returns_df[k][column], c)
         IN  RAdd(RMul(dist, dist), SumOfSquares(rows \ {k}, column, c))
\* The risk-free rate of a horizon: 0.045 / 252 * 30 and 0.045.
RiskFree == [h30 |-> Frac(45 * 30, 1000 * 252), cur |-> Frac(45, 1000)]

\* C10: with at least 2 returns of nonzero variance the stored Sharpe is
\* (mean - rf) / std, std the N-1 sample standard deviation, rf the daily
\* rate times 30 for the 30-day horizon and the annual rate for the current
\* horizon.  (std is held as the variance, Sharpe as its signed square.)
C10_SharpeFormula ==
    SharpeRan =>
        \A m \in MembersOfFrame : \A h \in {"h30", "cur"} :
            LET st == StatsOf(Snapshot(m), h)
                rows == ValidRows(m, HorizonColumn[h])
                n == Cardinality(rows)
            IN  (n >= 2 /\ Varies(m, HorizonColumn[h])) =>
                  /\ RMul(RInt(n), st.mean)
                         = SumOfReturns(rows, HorizonColumn[h])
                  /\ RMul(RInt(n - 1), st.std)
                         = SumOfSquares(rows, HorizonColumn[h], st.mean)
                  /\ st.sharpe # NULL
                  /\ RMul(st.sharpe, st.std)
                         = RSignedSq(RSub(st.mean, RiskFree[h]))

\* A member whose mean 30-day return is below the risk-free rate (negative
\* Sharpe) and whose current Sharpe is positive.
C10_Witness ==
    /\ SharpeRan
    /\ \E m \in MembersOfFrame :
          /\ Cardinality(ValidRows(m, "return_30d")) = 3
          /\ Snapshot(m).sharpe_30d # NULL
          /\ Snapshot(m).sharpe_30d[1] < 0
          /\ Snapshot(m).sharpe_current # NULL
          /\ Snapshot(m).sharpe_current[1] > 0

\* C4: the trade_returns store holds at most one record per trade, after
\* any sequence of analysis runs.
C4_OneReturnPerTrade ==
    \A i, j \in DOMAIN trade_returns :
        trade_returns[i].trade_id = trade_returns[j].trade_id => i = j

\* A run has written the return of a trade that had a record before the
\* run, and the store holds the records of two trades.
C4_Witness ==
    /\ call.op = "run_analysis"
    /\ "upserts" \in DOMAIN call
    /\ \E k \in DOMAIN call.upserts :
          get_trade_return(call.before, call.upserts[k].trade_id) # NULL
    /\ Len(trade_returns) = 2
    /\ Len(trade_returns) = Len(call.before)

\* The product of (1 + r) over the valid rows of a member.
RECURSIVE ProductOfGrowth(_, _)
ProductOfGrowth(rows, column) ==
    IF rows = {} THEN RInt(1)
    ELSE LET k == CHOOSE x \in rows : TRUE
         IN  RMul(RAdd(RInt(1), call.returns_df[k][column]),
                  ProductOfGrowth(rows \ {k}, column))
\* The valid rows of a member whose return is strictly positive.
Winners(m, column) ==
    {k \in ValidRows(m, column) : call.returns_df[k][column][1] > 0}

\* C11: per member and horizon with at least 2 returns, the stored win rate
\* is (number of returns strictly greater than 0) / (number of non-null
\* returns of the horizon); a return of exactly 0 counts as a loss.
C11_WinRateStrictlyPositive ==
    SharpeRan =>
        \A m \in MembersOfFrame : \A h \in {"h30", "cur"} :
            LET st == StatsOf(Snapshot(m), h)
                rows == ValidRows(m, HorizonColumn[h])
            IN  Cardinality(rows) >= 2 =>
                  /\ st.win_rate # NULL
                  /\ RMul(st.win_rate, RInt(Cardinality(rows)))
                         = RInt(Cardinality(Winners(m, HorizonColumn[h])))

\* A member with three current returns, one of them exactly 0 and two
\* positive: the win rate is 2/3.
C11_Witness ==
    /\ SharpeRan
    /\ \E m \in MembersOfFrame :
          /\ Cardinality(ValidRows(m, "return_current")) = 3
          /\ \E k \in ValidRows(m, "return_current") :
                call.returns_df[k].return_current = RInt(0)
          /\ Snapshot(m).win_rate_current = Frac(2, 3)

\* C12: per member and horizon with at least 2 returns, the stored total
\* return is the product of (1 + r) over all non-null returns of the
\* horizon, minus 1, whatever the order of the rows.
C12_TotalReturnCompounded ==
    SharpeRan =>
        \A m \in MembersOfFrame : \A h \in {"h30", "cur"} :
            LET st == StatsOf(Snapshot(m), h)
                rows == ValidRows(m, HorizonColumn[h])
            IN  Cardinality(rows) >= 2 =>
                  /\ st.total_return # NULL
                  /\ RAdd(st.total_return, RInt(1))
                         = ProductOfGrowth(rows, HorizonColumn[h])

\* A member with the 30-day returns 1/2 and 1/2 (in either order with a null
\* row): the compounded total is 5/4, not the sum 1.
C12_Witness ==
    /\ SharpeRan
    /\ \E m \in MembersOfFrame :
          /\ Cardinality(ValidRows(m, "return_30d")) = 2
          /\ \A k \in ValidRows(m, "return_30d") :
                call.returns_df[k].return_30d = Frac(1, 2)
          /\ Snapshot(m).total_return_30d = Frac(5, 4)

\* The rows of returns_df of a member.
RowsOf(m) == {k \in DOMAIN call.returns_df : call.returns_df[k].member_id = m}

\* C13 as stated: num_trades is the count of the non-null returns that
\* entered the statistics of the horizon, for each horizon.
C13_Original ==
    SharpeRan =>
        \A m \in MembersOfFrame : \A h \in {"h30", "cur"} :
            Snapshot(m).num_trades = Cardinality(ValidRows(m, HorizonColumn[h]))

\* C13 as amended: num_trades is the number of rows of the member in
\* returns_df, the rows with a null return_30d included, and it is recorded
\* whether or not a Sharpe ratio is.
C13_NumTradesCountsRows ==
    SharpeRan =>
        \A m \in MembersOfFrame :
            Snapshot(m).num_trades = Cardinality(RowsOf(m))

\* A member with three rows of which one has a 30-day return: num_trades
\* is 3 and there is no 30-day Sharpe.
C13_Witness ==
    /\ SharpeRan
    /\ \E m \in MembersOfFrame :
          /\ Cardinality(RowsOf(m)) = 3
          /\ Cardinality(ValidRows(m, "return_30d")) = 1
          /\ Snapshot(m).num_trades = 3
          /\ Snapshot(m).sharpe_30d = NULL

----------------------------------------------------------------------------
(* Direct calls of db.save_sharpe_snapshot with arbitrary arguments, and   *)
(* the ranking query on the resulting store.                               *)

\* The members table of this store, and the snapshot dates in use.
SnapshotMembers == {1, 2, 3}
SnapshotDates == {0, 1}
\* The statistics of a call: nothing but num_trades set, a negative and a
\* positive 30-day Sharpe.
StatsNone ==
    [sharpe_30d |-> NULL, sharpe_current |-> NULL, num_trades |-> 1,
     mean_return_30d |-> NULL, std_return_30d |-> NULL,
     mean_return_current |-> NULL, std_return_current |-> NULL,
     win_rate_30d |-> NULL, win_rate_current |-> NULL,
     total_return_30d |-> NULL, total_return_current |-> NULL]
StatsLow ==
    [sharpe_30d |-> Frac(-1, 2), sharpe_current |-> NULL, num_trades |-> 2,
     mean_return_30d |-> Frac(-1, 4), std_return_30d |-> Frac(1, 8),
     mean_return_current |-> RInt(1), std_return_current |-> RInt(0),
     win_rate_30d |-> RInt(0), win_rate_current |-> RInt(1),
     total_return_30d |-> Frac(-7, 16), total_return_current |-> RInt(3)]
StatsHigh ==
    [sharpe_30d |-> Frac(3, 2), sharpe_current |-> Frac(1, 3), num_trades |-> 3,
     mean_return_30d |-> Frac(1, 2), std_return_30d |-> Frac(1, 6),
     mean_return_current |-> Frac(1, 2), std_return_current |-> Frac(3, 4),
     win_rate_30d |-> RInt(1), win_rate_current |-> Frac(1, 2),
     total_return_30d |-> Frac(19, 8), total_return_current |-> RInt(1)]
SnapshotArgs ==
    {[member_id |-> m, snapshot_date |-> d] @@ st :
        m \in SnapshotMembers, d \in SnapshotDates,
        st \in {StatsNone, StatsLow, StatsHigh}}

\* The calls of save_sharpe_snapshot made so far and the keys they wrote.
SavesMade == IF "saves" \in DOMAIN call THEN call.saves ELSE 0
KeysWritten == IF "written" \in DOMAIN call THEN call.written ELSE {}

SaveCall(row) ==
    /\ SavesMade < MaxSaves
    /\ sharpe_snapshots' = save_sharpe_snapshot(sharpe_snapshots, row)
    /\ call' = [op |-> "save_sharpe_snapshot",
                row |-> row,
                before |-> sharpe_snapshots,
                saves |-> SavesMade + 1,
                written |-> KeysWritten
                    \cup {<<row.member_id, row.snapshot_date>>}]
    /\ UNCHANGED <<today, provider, trades, price_cache, trade_returns>>

LatestCall ==
    /\ call' = [op |-> "get_latest_sharpe_all_members",
                result |-> get_latest_sharpe_all_members(
                               sharpe_snapshots, SnapshotMembers),
                saves |-> SavesMade,
                written |-> KeysWritten]
    /\ UNCHANGED <<today, provider, trades, price_cache, trade_returns,
                   sharpe_snapshots>>

NextSnapshot ==
    \/ \E row \in SnapshotArgs : SaveCall(row)
    \/ LatestCall

SpecSnapshot == InitDb /\ [][NextSnapshot]_vars

\* The rows of a snapshot table with a (member, snapshot date) key.
RowsWithKey(table, m, d) ==
    {i \in DOMAIN table :
        table[i].member_id = m /\ table[i].snapshot_date = d}

\* C14: the store holds exactly one row per (member, snapshot_date)
\* written; a call for an existing key replaces every field of that row by
\* the call's values (nulls included) without adding a row and a call for a
\* new key adds one row; every other row is left unchanged.
C14_OneSnapshotPerKey ==
    /\ \A key \in KeysWritten :
          Cardinality(RowsWithKey(sharpe_snapshots, key[1], key[2])) = 1
    /\ \A i \in DOMAIN sharpe_snapshots :
          <<sharpe_snapshots[i].member_id, sharpe_snapshots[i].snapshot_date>>
              \in KeysWritten
    /\ call.op = "save_sharpe_snapshot" =>
          LET old == RowsWithKey(call.before, call.row.member_id,
                                 call.row.snapshot_date)
              now == RowsWithKey(sharpe_snapshots, call.row.member_id,
                                 call.row.snapshot_date)
          IN  /\ \A i \in now : sharpe_snapshots[i] = call.row
              /\ Len(sharpe_snapshots)
                     = Len(call.before) + (IF old = {} THEN 1 ELSE 0)
              /\ old # {} => now = old
              /\ \A i \in DOMAIN call.before :
                     i \notin old => sharpe_snapshots[i] = call.before[i]

\* A call for a key that held a full set of statistics supplies nulls: the
\* row now holds the nulls, and the two other rows of the store (another
\* member, another date) are as before.
C14_Witness ==
    /\ call.op = "save_sharpe_snapshot"
    /\ Len(call.before) = 2
    /\ Len(sharpe_snapshots) = 2
    /\ call.row.sharpe_30d = NULL
    /\ \E i \in DOMAIN call.before :
          /\ call.before[i].member_id = call.row.member_id
          /\ call.before[i].snapshot_date = call.row.snapshot_date
          /\ call.before[i].sharpe_30d # NULL
          /\ sharpe_snapshots[i].sharpe_30d = NULL
          /\ sharpe_snapshots[i].win_rate_30d = NULL

\* C15: get_latest_sharpe_all_members returns exactly the rows of the
\* maximum snapshot_date of the store, each once, by descending sharpe_30d,
\* every row with a null sharpe_30d after every row with a non-null one.
C15_LatestRanking ==
    call.op = "get_latest_sharpe_all_members" =>
        LET res == call.result
            latest == {i \in DOMAIN sharpe_snapshots :
                         \A j \in DOMAIN sharpe_snapshots :
                            sharpe_snapshots[j].snapshot_date
                                <= sharpe_snapshots[i].snapshot_date}
        IN  /\ {res[k] : k \in DOMAIN res}
                   = {sharpe_snapshots[i] : i \in latest}
            /\ Len(res) = Cardinality(latest)
            /\ \A k, l \in DOMAIN res :
                   k < l =>
                     /\ res[k].sharpe_30d = NULL => res[l].sharpe_30d = NULL
                     /\ (res[k].sharpe_30d # NULL /\ res[l].sharpe_30d # NULL)
                            => ~RGt(res[l].sharpe_30d, res[k].sharpe_30d)

\* The ranking of three members on the latest date, stored in the order
\* positive, null, negative: returned as positive, negative, null.
C15_Witness ==
    /\ call.op = "get_latest_sharpe_all_members"
    /\ Len(sharpe_snapshots) = 3
    /\ sharpe_snapshots[1].sharpe_30d = Frac(3, 2)
    /\ sharpe_snapshots[2].sharpe_30d = NULL
    /\ sharpe_snapshots[3].sharpe_30d = Frac(-1, 2)
    /\ Len(call.result) = 3
    /\ call.result[1] = sharpe_snapshots[1]
    /\ call.result[2] = sharpe_snapshots[3]
    /\ call.result[3] = sharpe_snapshots[2]

----------------------------------------------------------------------------
(* A history: the aggregator runs every day from day 0 to MaxHistoryDay on *)
(* the returns of the day, and the history of a member is queried.         *)

\* The returns of a day: member 1 has two trades, with a 30-day Sharpe on
\* even days only; member 2 has a trade on every third day.
HistoryFrame(d) ==
    <<[member_id |-> 1, return_30d |-> Frac(1, 2), return_current |-> RInt(1)],
      [member_id |-> 1,
       return_30d |-> IF d % 2 = 0 THEN Frac(-1, 2) ELSE NULL,
       return_current |-> RInt(0)]>>
    \o (IF d % 3 = 0
        THEN <<[member_id |-> 2, return_30d |-> NULL, return_current |-> RInt(1)]>>
        ELSE <<>>)

HistoryRun ==
    /\ sharpe_snapshots' =
           calculate_and_store_sharpe(sharpe_snapshots, HistoryFrame(today), today)
    /\ call' = [op |-> "calculate_and_store_sharpe", snapshot_date |-> today]
    /\ UNCHANGED <<today, provider, trades, price_cache, trade_returns>>

\* The next day begins once the day's run has been made.
HistoryTick ==
    /\ today < MaxHistoryDay
    /\ \E i \in DOMAIN sharpe_snapshots : sharpe_snapshots[i].snapshot_date = today
    /\ today' = today + 1
    /\ call' = NoCall
    /\ UNCHANGED <<provider, trades, price_cache, trade_returns, sharpe_snapshots>>

HistoryCall(member_id) ==
    /\ call' = [op |-> "get_member_sharpe_history",
                member_id |-> member_id,
                result |-> get_member_sharpe_history(sharpe_snapshots, member_id)]
    /\ UNCHANGED <<today, provider, trades, price_cache, trade_returns,
                   sharpe_snapshots>>

NextHistory ==
    \/ HistoryRun
    \/ HistoryTick
    \/ \E m \in Members : HistoryCall(m)

SpecHistory == InitDb /\ [][NextHistory]_vars

\* The rows of the store of the member whose history was queried.
HistoryRows ==
    {i \in DOMAIN sharpe_snapshots :
        sharpe_snapshots[i].member_id = call.member_id}
\* The result is in the order of its snapshot dates, ascending or descending.
OrderedByDate(res) ==
    \/ \A k, l \in DOMAIN res :
          k < l => res[k].snapshot_date <= res[l].snapshot_date
    \/ \A k, l \in DOMAIN res :
          k < l => res[k].snapshot_date >= res[l].snapshot_date

\* C16 as stated: the history of a member is every snapshot row stored for
\* the member and no other row, ordered by snapshot date.
C16_Original ==
    call.op = "get_member_sharpe_history" =>
        /\ {call.result[k] : k \in DOMAIN call.result}
               = {sharpe_snapshots[i] : i \in HistoryRows}
        /\ OrderedByDate(call.result)

\* C16 as amended: the history of a member is the rows of the member with
\* the 100 latest snapshot dates (all its rows if it has at most 100) and no
\* other row, the latest date first.
C16_HistoryLatestHundred ==
    call.op = "get_member_sharpe_history" =>
        LET res == call.result
            got == {i \in HistoryRows :
                      \E k \in DOMAIN res : res[k] = sharpe_snapshots[i]}
        IN  /\ \A k \in DOMAIN res :
                   \E i \in HistoryRows : res[k] = sharpe_snapshots[i]
            /\ Len(res) = (IF Cardinality(HistoryRows) < 100
                           THEN Cardinality(HistoryRows) ELSE 100)
            /\ \A k, l \in DOMAIN res :
                   k < l => res[k].snapshot_date > res[l].snapshot_date
            /\ \A i \in HistoryRows \ got : \A j \in got :
                   sharpe_snapshots[i].snapshot_date
                       < sharpe_snapshots[j].snapshot_date

\* The member has 101 snapshots: the history holds the 100 latest, and the
\* snapshot of day 0 is not in it.
C16_Witness ==
    /\ call.op = "get_member_sharpe_history"
    /\ Cardinality(HistoryRows) = 101
    /\ Len(call.result) = 100
    /\ call.result[1].snapshot_date = 100
    /\ call.result[100].snapshot_date = 1
    /\ \E i \in DOMAIN sharpe_snapshots :
          sharpe_snapshots[i].member_id # call.member_id

----------------------------------------------------------------------------
(* Direct calls of db.cache_prices with arbitrary price dicts.             *)

CacheCallsMade == IF call.op = "cache_prices" THEN call.n ELSE 0
\* The close that the first call to cache a (ticker, date) wrote for it.
FirstCached ==
    IF call.op = "cache_prices" THEN call.first ELSE [t \in Tickers |-> <<>>]

CachePricesCall(ticker, prices) ==
    /\ CacheCallsMade < MaxCacheCalls
    /\ price_cache' = cache_prices(price_cache, ticker, prices)
    /\ call' = [op |-> "cache_prices",
                ticker |-> ticker,
                prices |-> prices,
                n |-> CacheCallsMade + 1,
                first |-> [FirstCached EXCEPT ![ticker] =
                    [d \in DOMAIN @ \cup DOMAIN prices |->
                        IF d \in DOMAIN @ THEN @[d] ELSE prices[d]]]]
    /\ UNCHANGED <<today, provider, trades, trade_returns, sharpe_snapshots>>

NextCache ==
    \E ticker \in Tickers, prices \in AllSeries : CachePricesCall(ticker, prices)

SpecCache == InitDb /\ [][NextCache]_vars

\* C17: after any sequence of cache_prices calls every (ticker, date) that
\* a call has cached is still in the cache, and its close is the one
\* written by the first call that cached it.
C17_CachedPointImmutable ==
    \A t \in Tickers : \A d \in DOMAIN FirstCached[t] :
        /\ d \in DOMAIN price_cache[t]
        /\ price_cache[t][d] = FirstCached[t][d]

----------------------------------------------------------------------------
(* Calls of get_prices_for_tickers for MaxFetchTickers tickers (named by   *)
(* numbers) on caches that hold 0 to CacheThreshold + 2 points per ticker. *)

FetchTickers == 1..MaxFetchTickers
FetchDays == 1..(CacheThreshold + 2)
FetchStartDates == {3}

\* The caches: empty; ticker t holds its first t % 13 days; ticker t holds
\* its last t % 13 days.  Cached closes are 1.
CachedCount(t) == t % (CacheThreshold + 3)
CacheShapes ==
    { [t \in FetchTickers |-> <<>>],
      [t \in FetchTickers |-> [d \in 1..CachedCount(t) |-> 1]],
      [t \in FetchTickers |->
          [d \in {x \in FetchDays : x > CacheThreshold + 2 - CachedCount(t)}
              |-> 1]] }
\* The provider: every ticker has a close of 2 on every day; or only on the
\* last two days, and nothing at all for every fifth ticker.
ProviderShapes ==
    { [t \in FetchTickers |-> [d \in FetchDays |-> 2]],
      [t \in FetchTickers |->
          IF t % 5 = 0 THEN <<>>
          ELSE [d \in {x \in FetchDays : x > CacheThreshold} |-> 2]] }

\* The requests: all tickers in ascending and in descending order.
RequestLists ==
    { [k \in 1..MaxFetchTickers |-> k],
      [k \in 1..MaxFetchTickers |-> MaxFetchTickers + 1 - k] }

FetchCallsMade == IF call.op = "get_prices_for_tickers" THEN call.n ELSE 0

InitPrices ==
    /\ today = CacheThreshold + 2
    /\ provider \in ProviderShapes
    /\ trades = <<>>
    /\ price_cache \in CacheShapes
    /\ trade_returns = <<>>
    /\ sharpe_snapshots = <<>>
    /\ call = NoCall

GetPricesCall(tickers, start_date, failed) ==
    LET got == get_prices_for_tickers(price_cache, provider, tickers,
                                      start_date, failed)
        to_fetch == needs_fetch(price_cache, tickers)
    IN  /\ FetchCallsMade < MaxFetchCalls
        /\ price_cache' = got[2]
        /\ call' = [op |-> "get_prices_for_tickers",
                    tickers |-> tickers,
                    start_date |-> start_date,
                    failed |-> failed,
                    before |-> price_cache,
                    to_fetch |-> to_fetch,
                    requests |-> IF to_fetch # <<>>
                                 THEN provider_requests(to_fetch, failed)
                                 ELSE <<>>,
                    prices |-> got[1],
                    n |-> FetchCallsMade + 1]
        /\ UNCHANGED <<today, provider, trades, trade_returns,
                       sharpe_snapshots>>

NextPrices ==
    \E tickers \in RequestLists, start_date \in FetchStartDates,
       failed \in SUBSET (0..((MaxFetchTickers - 1) \div batch_size)) :
        GetPricesCall(tickers, start_date, failed)

SpecPrices == InitPrices /\ [][NextPrices]_vars

\* What the claims about one call of get_prices_for_tickers talk about.
PricesRan == call.op = "get_prices_for_tickers"
RequestedTickers == {call.tickers[k] : k \in DOMAIN call.tickers}
\* The number of points the cache held for a ticker when the call began.
CachedBefore(t) == Cardinality(DOMAIN call.before[t])
\* The batch in which the call sends a ticker to the provider: the tickers
\* with at most 10 cached points, in the order of the request, by fifties.
FetchPosition(t) ==
    LET k == CHOOSE i \in DOMAIN call.tickers : call.tickers[i] = t
    IN  Cardinality({i \in 1..k : CachedBefore(call.tickers[i]) <= 10})
FetchBatch(t) == (FetchPosition(t) - 1) \div 50
\* The provider was asked for the ticker.
SentToProvider(t) ==
    \E k \in DOMAIN call.to_fetch :
        /\ call.to_fetch[k] = t
        /\ \E r \in DOMAIN call.requests : call.requests[r] = (k - 1) \div 50
\* What the provider holds for a ticker from the start date on.
ProviderSeries(t) ==
    [d \in {x \in DOMAIN provider[t] : x >= call.start_date} |-> provider[t][d]]
\* The cache holds every point of a series.
InCache(t, series) ==
    \A d \in DOMAIN series :
        d \in DOMAIN price_cache[t] /\ price_cache[t][d] = series[d]

\* C18: a ticker of the request is served from the cache, with no provider
\* request for it, if and only if it had strictly more than 10 cached
\* points; with 0 to 10 cached points it is sent to the provider, whatever
\* dates the cache covers.
C18_CacheSatisfiedAboveTen ==
    PricesRan =>
        \A t \in RequestedTickers :
            /\ SentToProvider(t) <=> CachedBefore(t) <= 10
            /\ CachedBefore(t) > 10 =>
                  /\ t \in DOMAIN call.prices
                  /\ call.prices[t] = call.before[t]
                  /\ price_cache[t] = call.before[t]

\* The request holds a ticker with 10 cached points that covered the last
\* day and was sent to the provider, one with 11 that was served from the
\* cache, and one with none.
C18_Witness ==
    /\ PricesRan
    /\ \E t \in RequestedTickers :
          /\ CachedBefore(t) = 10
          /\ today \in DOMAIN call.before[t]
          /\ SentToProvider(t)
    /\ \E t \in RequestedTickers :
          /\ CachedBefore(t) = 11
          /\ ~SentToProvider(t)
          /\ call.prices[t] = call.before[t]
    /\ \E t \in RequestedTickers : CachedBefore(t) = 0 /\ SentToProvider(t)

\* C19: every point of every series that the call hands over is in the
\* price cache when the call returns, before any return or Sharpe is
\* computed from it.
C19_WrittenBackBeforeHandedOver ==
    PricesRan =>
        \A t \in DOMAIN call.prices : InCache(t, call.prices[t])

\* A fetched series is handed over of which the cache held no point when
\* the call began.
C19_Witness ==
    /\ PricesRan
    /\ \E t \in DOMAIN call.prices :
          /\ SentToProvider(t)
          /\ DOMAIN call.prices[t] # {}
          /\ DOMAIN call.prices[t] \cap DOMAIN call.before[t] = {}
          /\ InCache(t, call.prices[t])

\* C20: every batch of the tickers to fetch is requested once, in order,
\* whatever batches raise; the series of every ticker of a batch that did
\* not raise is returned and cached; a ticker of a batch that raised gets
\* no series and its cached points are as before.
C20_BatchFailureIsolated ==
    PricesRan =>
        LET n == Cardinality({t \in RequestedTickers : CachedBefore(t) <= 10})
        IN  /\ call.requests = [i \in 1..((n + 49) \div 50) |-> i - 1]
            /\ \A t \in RequestedTickers :
                   CachedBefore(t) <= 10 =>
                      IF FetchBatch(t) \in call.failed
                      THEN /\ t \notin DOMAIN call.prices
                           /\ price_cache[t] = call.before[t]
                      ELSE DOMAIN ProviderSeries(t) # {} =>
                              /\ t \in DOMAIN call.prices
                              /\ call.prices[t] = ProviderSeries(t)
                              /\ InCache(t, ProviderSeries(t))

\* Three batches are requested and the second raises: tickers of the first
\* and of the third batch got their series, a ticker of the second did not.
C20_Witness ==
    /\ PricesRan
    /\ call.requests = <<0, 1, 2>>
    /\ call.failed = {1}
    /\ \E t \in DOMAIN call.prices : SentToProvider(t) /\ FetchBatch(t) = 0
    /\ \E t \in DOMAIN call.prices : SentToProvider(t) /\ FetchBatch(t) = 2
    /\ \E t \in RequestedTickers :
          /\ FetchBatch(t) = 1
          /\ CachedBefore(t) <= 10
          /\ DOMAIN ProviderSeries(t) # {}
          /\ t \notin DOMAIN call.prices

\* C22: run_analysis over a non-empty set of eligible trades completes and
\* returns the summary {trades_analyzed, members_analyzed, snapshot_date}
\* whatever the prices are, with trades_analyzed = 0 when no trade has price
\* coverage.
C22_MissingPricesNeverFatal ==
    (call.op = "run_analysis" /\ "trades_df" \in DOMAIN call) =>
        /\ "raised" \notin DOMAIN call.result
        /\ "trades_analyzed" \in DOMAIN call.result
        /\ call.result.trades_analyzed = Len(call.upserts)
        /\ call.result.snapshot_date = today

----------------------------------------------------------------------------
(* Ingestion: direct calls of db.insert_trade with the rows the scraper    *)
(* builds, whose ticker and owner may be null.                             *)

\* process_house_trade sets owner to None; process_senate_trade passes the
\* owner of the disclosure.  A ticker of "--" becomes None.
Owners == {"Self", NULL_TEXT}
IngestedRows ==
    [member_id : Members, transaction_date : TxDays,
     ticker : Tickers \cup {NULL_TEXT}, transaction_type : TxTypes,
     owner : Owners]

InsertCall(row) ==
    /\ Len(trades) < MaxLedger
    /\ trades' = insert_trade(trades, row)
    /\ call' = [op |-> "insert_trade",
                row |-> row,
                before |-> trades,
                returned |-> insert_trade_returns(trades, row)]
    /\ UNCHANGED <<today, provider, price_cache, trade_returns,
                   sharpe_snapshots>>

NextLedger == \E row \in IngestedRows : InsertCall(row)

SpecLedger == InitDb /\ [][NextLedger]_vars

\* C23: insert_trade called again with a tuple that the ledger already
\* holds returns None and adds no record, also when the ticker or the owner
\* of the tuple is null.
C23_ReingestionIdempotent ==
    (/\ call.op = "insert_trade"
     /\ \E i \in DOMAIN call.before : call.before[i] = call.row) =>
        /\ call.returned = NULL
        /\ trades = call.before

----------------------------------------------------------------------------
(* Ingestion from the disclosure feeds: the scraper normalises a raw       *)
(* transaction and stores it.                                              *)

\* The raw transaction types of the feeds.  TLA+ has no string operations,
\* so tx_type.lower().strip() and the substring tests of
\* normalize_transaction_type are tabulated for these strings.
RawTypes ==
    {"Purchase", "Sale", "Sale (Full)", "Sale (Partial)", "sale_partial",
     "Exchange", "Receive"}
lower_strip ==
    [r \in RawTypes |->
        CASE r = "Purchase" -> "purchase"
          [] r = "Sale" -> "sale"
          [] r = "Sale (Full)" -> "sale (full)"
          [] r = "Sale (Partial)" -> "sale (partial)"
          [] r = "sale_partial" -> "sale_partial"
          [] r = "Exchange" -> "exchange"
          [] r = "Receive" -> "receive"]
\* sub in s, for the lowered strings and the four words the code looks for.
Contains(s, sub) ==
    CASE sub = "purchase" -> s = "purchase"
      [] sub = "sale" -> s \in {"sale", "sale (full)", "sale (partial)",
                               "sale_partial"}
      [] sub = "partial" -> s \in {"sale (partial)", "sale_partial"}
      [] sub = "full" -> s = "sale (full)"
      [] sub = "exchange" -> s = "exchange"

normalize_transaction_type(raw) ==
    LET tx_type == lower_strip[raw]
    IN  IF Contains(tx_type, "purchase") THEN "purchase"
        ELSE IF Contains(tx_type, "sale")
             THEN IF Contains(tx_type, "partial") THEN "sale_partial"
                  ELSE IF Contains(tx_type, "full") THEN "sale_full"
                  ELSE "sale"
        ELSE IF Contains(tx_type, "exchange") THEN "exchange"
        ELSE tx_type

\* process_house_trade / process_senate_trade: a ticker of "--" becomes
\* None and the type is normalised.
RawTrades ==
    [member_id : {1}, transaction_date : TxDays, ticker : Tickers \cup {"--"},
     type : RawTypes, owner : Owners]
process_trade(raw) ==
    [member_id |-> raw.member_id,
     transaction_date |-> raw.transaction_date,
     ticker |-> IF raw.ticker # "--" THEN raw.ticker ELSE NULL_TEXT,
     transaction_type |-> normalize_transaction_type(raw.type),
     owner |-> raw.owner]

\* One iteration of the ingestion loop (scraper.py 213-255).
IngestCall(raw) ==
    /\ Len(trades) < MaxLedger
    /\ trades' = insert_trade(trades, process_trade(raw))
    /\ call' = [op |-> "ingest",
                raw |-> raw,
                before |-> trades,
                returned |-> insert_trade_returns(trades, process_trade(raw))]
    /\ UNCHANGED <<today, provider, price_cache, trade_returns,
                   sharpe_snapshots>>

NextIngest == \E raw \in RawTrades : IngestCall(raw)

SpecIngest == InitDb /\ [][NextIngest]_vars

\* C25: every trade persisted by ingestion has a transaction type in
\* {purchase, sale, exchange}, and every disclosed sale with a ticker is
\* among the trades selected for return analysis.
C25_TypeIsOneOfThree ==
    /\ \A i \in DOMAIN trades :
          trades[i].transaction_type \in {"purchase", "sale", "exchange"}
    /\ (/\ call.op = "ingest"
        /\ call.returned # NULL
        /\ call.raw.type \in {"Sale", "Sale (Full)", "Sale (Partial)",
                              "sale_partial"}
        /\ call.raw.ticker # "--") =>
          \E k \in DOMAIN get_trades_for_analysis(trades) :
              get_trades_for_analysis(trades)[k].trade_id = call.returned[1]

----------------------------------------------------------------------------
(* Direct calls of calculate_and_store_returns in which trades raise: the  *)
(* price series may hold a close of 0, and any set of upserts may fail.    *)

FaultDicts ==
    UNION {[T -> UNION {[S -> 0..MaxPrice] : S \in SUBSET {0, LastDay}}] :
              T \in SUBSET Tickers}

FaultyCall(prices, failing) ==
    LET trades_df == get_trades_for_analysis(trades)
        ret == returns_loop(trade_returns, trades_df, prices, today, failing)
    IN  /\ CallsMade < MaxCalls
        /\ trade_returns' = ret[2]
        /\ call' = [op |-> "calculate_and_store_returns",
                    n |-> CallsMade + 1,
                    trades_df |-> trades_df,
                    prices |-> prices,
                    failing |-> failing,
                    before |-> trade_returns,
                    upserts |-> ret[3],
                    returns_df |-> ret[1]]
        /\ UNCHANGED <<today, provider, trades, price_cache, sharpe_snapshots>>

NextFaults ==
    \E prices \in FaultDicts, failing \in SUBSET (1..MaxTrades) :
        FaultyCall(prices, failing)

SpecFaults == InitReturns /\ [][NextFaults]_vars

\* C24: a trade whose processing raises is skipped and nothing else is: it
\* has no upsert, no row in the returned frame and its stored record is as
\* before the call, while every other trade that has an entry price gets
\* its upsert, its stored record and its row in the returned frame.
C24_ExceptionSkipsOnlyThatTrade ==
    (call.op = "calculate_and_store_returns" /\ "failing" \in DOMAIN call) =>
        \A k \in DOMAIN call.trades_df :
            LET trade == call.trades_df[k]
                id == trade.trade_id
            IN  IF trade_raises(trade, call.prices, call.failing)
                THEN /\ \A j \in DOMAIN call.upserts :
                            call.upserts[j].trade_id # id
                     /\ \A j \in DOMAIN call.returns_df :
                            call.returns_df[j].trade_id # id
                     /\ get_trade_return(trade_returns, id)
                            = get_trade_return(call.before, id)
                ELSE LET a == trade_return(trade, call.prices, today)
                     IN  a # NULL =>
                           /\ \E j \in DOMAIN call.upserts :
                                  call.upserts[j] = a
                           /\ \E j \in DOMAIN call.returns_df :
                                  /\ call.returns_df[j].trade_id = id
                                  /\ call.returns_df[j].return_30d
                                        = a.return_30d
                                  /\ call.returns_df[j].return_current
                                        = a.return_current
                           /\ get_trade_return(trade_returns, id)
                                = get_trade_return(
                                      upsert_trade_return(call.before, a), id)

\* A call in which the first trade raises on a close of 0 and the second
\* trade is written.
C24_Witness ==
    /\ call.op = "calculate_and_store_returns"
    /\ "failing" \in DOMAIN call
    /\ Len(call.trades_df) = 2
    /\ call.failing = {}
    /\ trade_raises(call.trades_df[1], call.prices, call.failing)
    /\ Len(call.upserts) = 1
    /\ call.upserts[1].trade_id = call.trades_df[2].trade_id
    /\ get_trade_return(trade_returns, call.trades_df[2].trade_id) # NULL

----------------------------------------------------------------------------
(* The two calculators of run_analysis called one after the other on a     *)
(* fixed ledger, each time with an arbitrary prices dict over ClockDays:   *)
(* the provider may revise or drop closes between runs.                    *)

PipelineCallsMade == IF call.op = "pipeline" THEN call.n ELSE 0

InitPipeline ==
    /\ today = LastDay
    /\ provider = [t \in Tickers |-> <<>>]
    /\ trades \in {l \in UNION {[1..n -> TradeRows] : n \in 1..MaxTrades} :
                      \A i, j \in DOMAIN l : i # j => l[i] # l[j]}
    /\ price_cache = [t \in Tickers |-> <<>>]
    /\ trade_returns = <<>>
    /\ sharpe_snapshots = <<>>
    /\ call = NoCall

PipelineCall(prices) ==
    LET trades_df == get_trades_for_analysis(trades)
        ret == calculate_and_store_returns(trade_returns, trades_df, prices,
                                           today)
        returns_df == aggregator_input(ret[1], ret[2], trades)
    IN  /\ PipelineCallsMade < MaxCalls
        /\ trade_returns' = ret[2]
        /\ sharpe_snapshots' =
              IF sharpe_raises(returns_df) THEN sharpe_snapshots
              ELSE calculate_and_store_sharpe(sharpe_snapshots, returns_df,
                                              today)
        /\ call' = [op |-> "pipeline",
                    n |-> PipelineCallsMade + 1,
                    trades_df |-> trades_df,
                    prices |-> prices,
                    before |-> trade_returns,
                    snapshots_before |-> sharpe_snapshots,
                    upserts |-> ret[3],
                    raised |-> sharpe_raises(returns_df)]
        /\ UNCHANGED <<today, provider, trades, price_cache>>

NextPipeline ==
    \E prices \in UNION {[T -> UNION {[S -> Prices] : S \in SUBSET ClockDays}] :
                             T \in SUBSET Tickers} :
        PipelineCall(prices)

SpecPipeline == InitPipeline /\ [][NextPipeline]_vars

PipelineRan == call.op = "pipeline"
\* The members for which the run computed a return.
ComputedMembers ==
    {trades[call.upserts[k].trade_id].member_id : k \in DOMAIN call.upserts}
SnapshotOf(table, m, d) ==
    LET IsKey(r) == r.member_id = m /\ r.snapshot_date = d
    IN  SelectSeq(table, IsKey)
SnapshotsOfMember(table, m) ==
    LET IsMember(r) == r.member_id = m
    IN  SelectSeq(table, IsMember)
\* The 30-day statistics of member m over the rows of a frame.
Stats30(frame, m) ==
    LET IsMember(r) == r.member_id = m
    IN  horizon_stats(dropna(SelectSeq(frame, IsMember), "return_30d"),
                      RMul(RISK_FREE_RATE_DAILY, RInt(30)))
SnapshotHas30(row, stats) ==
    /\ row.sharpe_30d = stats.sharpe
    /\ row.mean_return_30d = stats.mean
    /\ row.std_return_30d = stats.std
    /\ row.win_rate_30d = stats.win_rate
    /\ row.total_return_30d = stats.total_return
\* The values computed in this run, one row per upsert, with the member of
\* the trade.
ComputedFrame ==
    [k \in DOMAIN call.upserts |->
        [member_id |-> trades[call.upserts[k].trade_id].member_id,
         return_30d |-> call.upserts[k].return_30d]]

\* C26 as stated: after a run the snapshot of the run date of each member
\* analysed has the 30-day statistics of the return_30d values stored for
\* the member's trades at the end of the run.
C26_Original ==
    PipelineRan =>
        \A m \in ComputedMembers :
            /\ Len(SnapshotOf(sharpe_snapshots, m, today)) = 1
            /\ SnapshotHas30(SnapshotOf(sharpe_snapshots, m, today)[1],
                             Stats30(stored_frame(trade_returns, trades), m))

\* C26 amended: the snapshot has the 30-day statistics of the return_30d
\* values computed in this run for the member's trades, the arguments of
\* this run's upserts; trades skipped in this run and stored values that an
\* upsert with a null preserved do not enter.
C26_SnapshotFromThisRun ==
    PipelineRan =>
        \A m \in ComputedMembers :
            /\ Len(SnapshotOf(sharpe_snapshots, m, today)) = 1
            /\ SnapshotHas30(SnapshotOf(sharpe_snapshots, m, today)[1],
                             Stats30(ComputedFrame, m))

\* A second run whose snapshot differs from the statistics of the stored
\* values: two values are stored and this run computed none.
C26_Witness ==
    /\ PipelineRan
    /\ ~call.raised
    /\ call.n = 2
    /\ \E m \in ComputedMembers :
          /\ Stats30(stored_frame(trade_returns, trades), m).mean # NULL
          /\ Stats30(ComputedFrame, m).mean = NULL

\* C27: every stored record has the return_current that its stored entry
\* price and the latest price of the run give.
C27_EntryFieldsMatchReturns ==
    PipelineRan =>
        \A k \in DOMAIN call.upserts :
            LET rec == get_trade_return(trade_returns,
                                        call.upserts[k].trade_id)
                trade == trades[call.upserts[k].trade_id]
                latest == current_price(call.prices[trade.ticker])
            IN  rec.return_current
                    = flip_sign(trade.transaction_type,
                                Frac(latest - rec.entry_price,
                                     rec.entry_price))

\* C28: a run writes the snapshot of the run date for exactly the members
\* one of whose trades produced a return in this run; every snapshot row of
\* any other member is as it was before the run.
C28_SnapshotIffReturn ==
    PipelineRan =>
        \A m \in Members :
            IF m \in ComputedMembers
            THEN SnapshotOf(sharpe_snapshots, m, today)
                    = <<member_snapshot(
                          [k \in DOMAIN call.upserts |->
                              [member_id |->
                                  trades[call.upserts[k].trade_id].member_id,
                               return_30d |-> call.upserts[k].return_30d,
                               return_current |->
                                   call.upserts[k].return_current]],
                          m, today)>>
            ELSE SnapshotsOfMember(sharpe_snapshots, m)
                    = SnapshotsOfMember(call.snapshots_before, m)

\* A second run in which one member has a return and the other, whose
\* trades were all skipped, keeps the snapshot of the same date that the
\* first run wrote.
C28_Witness ==
    /\ PipelineRan
    /\ call.n = 2
    /\ \E m, o \in Members :
          /\ m \in ComputedMembers
          /\ o \notin ComputedMembers
          /\ Len(SnapshotOf(call.snapshots_before, o, today)) = 1
          /\ SnapshotOf(sharpe_snapshots, o, today)
                = SnapshotOf(call.snapshots_before, o, today)

----------------------------------------------------------------------------
(* Runs of the program around the cache threshold: one trade, a provider   *)
(* that has CacheThreshold closes when the clock starts, on day            *)
(* CacheThreshold, and publishes the close of each day of the clock; the   *)
(* cache holds what an earlier fetch left in it.  No provider request      *)
(* fails.                                                                  *)

InitHeal ==
    /\ today = CacheThreshold
    /\ provider = [t \in Tickers |-> [d \in 0..(CacheThreshold - 1) |-> 1]]
    /\ trades \in {<<row>> : row \in TradeRows}
    /\ price_cache \in {[t \in Tickers |-> [d \in 0..(n - 1) |-> 1]] :
                           n \in 0..CacheThreshold}
    /\ trade_returns = <<>>
    /\ sharpe_snapshots = <<>>
    /\ call = NoCall

\* The clock moves from day CacheThreshold to the last day.
HealTick ==
    /\ today < LastDay
    /\ today' = LastDay
    /\ call' = NoCall
    /\ UNCHANGED <<provider, trades, price_cache, trade_returns,
                   sharpe_snapshots>>

NextHeal ==
    \/ HealTick
    \/ \E t \in Tickers, p \in Prices : Publish(t, p)
    \/ RunAnalysis({})

SpecHeal == InitHeal /\ [][NextHeal]_vars

\* An earlier run left the return_30d of the trade null, and the provider
\* holds a close on or after entry date + 30 days when this run executes.
LeftNullAndOffered ==
    /\ call.op = "run_analysis"
    /\ "upserts" \in DOMAIN call
    /\ get_trade_return(call.before, 1) # NULL
    /\ get_trade_return(call.before, 1).return_30d = NULL
    /\ \E d \in DOMAIN provider[trades[1].ticker] :
          d >= get_trade_return(call.before, 1).entry_date + Horizon
Healed ==
    /\ get_trade_return(trade_returns, 1) # NULL
    /\ get_trade_return(trade_returns, 1).return_30d # NULL
    /\ get_trade_return(trade_returns, 1).return_current
          = flip_sign(trades[1].transaction_type,
                      Frac(current_price(provider[trades[1].ticker])
                             - get_trade_return(trade_returns, 1).entry_price,
                           get_trade_return(trade_returns, 1).entry_price))

\* C21: a run that finds the return_30d of a trade left null by an earlier
\* run, while the provider offers a close on or after entry date + 30 days
\* and no request fails, stores a non-null return_30d and the return_current
\* of the newest close.  A run is a function of the ledger, the cache, the
\* provider and the date, and a run that does not fetch leaves the cache as
\* it was, so that a run that does not heal is repeated by every later run:
\* the claim's "some later run" is settled by one run.
C21_SelfHealing == LeftNullAndOffered => Healed

\* C29: a run that directly follows a run (same date, same ledger, same
\* provider data, no request failing) leaves the trade_returns records and
\* the snapshot rows as the first run left them.  Every other action resets
\* call, so that call.op = "run_analysis" before the step says that the
\* step before was a run.
C29_RunIdempotent ==
    [][(call.op = "run_analysis" /\ call'.op = "run_analysis") =>
          /\ trade_returns' = trade_returns
          /\ sharpe_snapshots' = sharpe_snapshots]_vars

\* The state after a first run that fetched from the provider, filling the
\* cache beyond the threshold, and a second run that read the cache: the
\* records the second run found are the records it left.
C29_Witness ==
    /\ call.op = "run_analysis"
    /\ today = CacheThreshold
    /\ \A t \in Tickers : cache_satisfied(price_cache[t])
    /\ call.prices = [t \in Tickers |-> price_cache[t]]
    /\ call.before = trade_returns
    /\ call.before # <<>>
    /\ Len(sharpe_snapshots) = 1

----------------------------------------------------------------------------
(* Two runs of the analysis that overlap in time.  Each run is a process   *)
(* of its own with its own prices dict; every upsert_trade_return and      *)
(* every save_sharpe_snapshot opens a connection, writes one row and       *)
(* commits (db.py 15-20), so the rows of the two runs interleave.  The     *)
(* local state of the runs is kept in call.                                *)

RunIds == {"A", "B"}
IdleRun == [pc |-> "idle", prices |-> <<>>, upserts |-> <<>>,
            results |-> <<>>, k |-> 0]
Runs == IF call.op = "overlap" THEN call.runs ELSE [r \in RunIds |-> IdleRun]

\* The run reads the ledger and its prices; the values it will write depend
\* on these only.
StartRun(r, prices) ==
    LET ret == calculate_and_store_returns(
                   <<>>, get_trades_for_analysis(trades), prices, today)
    IN  /\ Runs[r].pc = "idle"
        /\ call' = [op |-> "overlap",
                    runs |-> [Runs EXCEPT ![r] =
                                [pc |-> "returns", prices |-> prices,
                                 upserts |-> ret[3], results |-> ret[1],
                                 k |-> 0]]]
        /\ UNCHANGED <<today, provider, trades, price_cache, trade_returns,
                       sharpe_snapshots>>

\* The next upsert of the run, or the end of calculate_and_store_returns;
\* the run then ends with the KeyError when its frame is empty.
UpsertStep(r) ==
    /\ Runs[r].pc = "returns"
    /\ IF Runs[r].k < Len(Runs[r].upserts)
       THEN /\ trade_returns' =
                  upsert_trade_return(trade_returns,
                                      Runs[r].upserts[Runs[r].k + 1])
            /\ call' = [call EXCEPT !.runs[r].k = @ + 1]
       ELSE /\ trade_returns' = trade_returns
            /\ call' = [call EXCEPT
                          !.runs[r].pc = IF sharpe_raises(Runs[r].results)
                                         THEN "done" ELSE "sharpe",
                          !.runs[r].k = 0]
    /\ UNCHANGED <<today, provider, trades, price_cache, sharpe_snapshots>>

\* The snapshot of the next member of the run's frame, or the end of the
\* run.
SaveStep(r) ==
    LET members == unique_members(Runs[r].results)
    IN  /\ Runs[r].pc = "sharpe"
        /\ IF Runs[r].k < Len(members)
           THEN /\ sharpe_snapshots' =
                      save_sharpe_snapshot(
                          sharpe_snapshots,
                          member_snapshot(Runs[r].results,
                                          members[Runs[r].k + 1], today))
                /\ call' = [call EXCEPT !.runs[r].k = @ + 1]
           ELSE /\ sharpe_snapshots' = sharpe_snapshots
                /\ call' = [call EXCEPT !.runs[r].pc = "done"]
        /\ UNCHANGED <<today, provider, trades, price_cache, trade_returns>>

NextOverlap ==
    \/ \E r \in RunIds :
         \E prices \in UNION {[T -> UNION {[S -> Prices] :
                                             S \in SUBSET {0, LastDay}}] :
                                  T \in SUBSET Tickers} :
             StartRun(r, prices)
    \/ \E r \in RunIds : UpsertStep(r)
    \/ \E r \in RunIds : SaveStep(r)

SpecOverlap == InitPipeline /\ [][NextOverlap]_vars

\* The stores after one whole run with the given prices on the given stores.
AfterRun(stores, prices) ==
    LET ret == calculate_and_store_returns(
                   stores[1], get_trades_for_analysis(trades), prices, today)
    IN  <<ret[2],
          IF sharpe_raises(ret[1]) THEN stores[2]
          ELSE calculate_and_store_sharpe(stores[2], ret[1], today)>>
Serial(first, second) ==
    AfterRun(AfterRun(<<<<>>, <<>>>>, Runs[first].prices), Runs[second].prices)
BothDone == \A r \in RunIds : Runs[r].pc = "done"

\* C30: when both runs have ended, the trade_returns and snapshot stores are
\* the stores of the two runs executed one after the other in some order.
C30_OverlapSerializable ==
    BothDone =>
        \/ <<trade_returns, sharpe_snapshots>> = Serial("A", "B")
        \/ <<trade_returns, sharpe_snapshots>> = Serial("B", "A")

====
